---- MODULE Spec2Model ----
(***************************************************************************)
(* A model of the TunnelManager actor of rita (althea_rs):                 *)
(* src/rita/src/rita_common/tunnel_manager/mod.rs.                         *)
(*                                                                         *)
(* The actor owns free_ports (Vec<u16>) and tunnels                        *)
(* (HashMap<Identity, Vec<Tunnel>>).  Every message handler is one action. *)
(* The kernel (KI), the routing daemon (babel monitor/unmonitor), the      *)
(* hello handler and the DNS resolver are the environment: their results   *)
(* are inputs drawn with \E, their state (existing interfaces, rate        *)
(* limits, monitored interfaces, hellos in flight) is part of the state.   *)
(*                                                                         *)
(* What a handler leaves to the event loop is state as well: the futures   *)
(* that Tunnel::monitor and Tunnel::unmonitor spawn (babel_futures), which *)
(* reach the routing daemon later, in any order, or never, and the         *)
(* PortCallback messages sent to the actor's own mailbox (port_callbacks). *)
(*                                                                         *)
(* free_ports is kept as a multiset (port -> number of copies): the code   *)
(* only ever draws a uniformly random index and pushes, so the order of    *)
(* the Vec is never observed.  The hellos and the DNS requests in flight   *)
(* are bags too: the code sends a second Hello, or spawns a second         *)
(* request, equal to one still in flight, and each is answered on its own. *)
(*                                                                         *)
(* The traffic watchers of rita_common and rita_client are modelled beside *)
(* it, with the debt keeper's ledger they write to.  The requests to the   *)
(* exit in flight are a bag.  The bill of the client traffic watcher is    *)
(* computed at the widths of the code (u32, u64, i128) on numbers kept as  *)
(* sequences of bytes, and whether the build checks arithmetic overflow is *)
(* chosen in the initial state.                                            *)
(***************************************************************************)
EXTENDS Integers, Sequences, FiniteSets, Bags, TLC

\* ---- bounds of the model
MaxTime == 1
MaxDup == 2
MaxIf == 2
MaxInflight == 2
MaxBatch == 1
MaxPeers == 1
MaxDns == 2
MaxRoutes == 2
MaxNeighbors == 2
MaxRows == 2
MaxInbox == 2
MaxRounds == 2
MaxFutures == 2
MaxMailbox == 2
MaxContacts == 2
MaxRequests == 2
MaxOverBilled == 1
MaxLedgerBytes == 1

\* ---- program constants and settings
WgStartPort == 65533
PortEnd == 65535
RetryLimit == 10
FreeTierThroughput == 6000000
LocalFee == 1
MaxFee == 100
\* the bytes of a u32, of a u64 and of an i128
U32Bytes == 4
U64Bytes == 8
I128Bytes == 16

Ports == WgStartPort..(PortEnd - 1)
Ids == {"idA", "idB"}
IPs == {"ip1", "ip2"}
Ifidxs == {0, 3}
IfNames == 0..(MaxIf - 1)
HaveTunnel == {"SomeTrue", "SomeFalse"}
PeerWgPorts == {51820}
UsedTables == SUBSET {WgStartPort}
Durations == 1..MaxTime

\* LocalIdentity { global, wg_port, have_tunnel }
LocalIdentities == [global : Ids, wg_port : PeerWgPorts, have_tunnel : HaveTunnel]

\* which identity can be met at which address on which interface: idA is a
\* neighbor on a physical link, idB is a multihomed exit that is met off-link
\* (ifidx 0) under two addresses and on a physical link under one of them
Neighbors ==
  {[id |-> "idA", ip |-> "ip1", ifidx |-> 3], [id |-> "idB", ip |-> "ip1", ifidx |-> 0],
   [id |-> "idB", ip |-> "ip2", ifidx |-> 0], [id |-> "idB", ip |-> "ip2", ifidx |-> 3]}

LivesAt(id, peer) == [id |-> id, ip |-> peer.ip, ifidx |-> peer.ifidx] \in Neighbors
\* Peer { ifidx, contact_socket }: only the ip of the socket is read by the TunnelManager
Peers == [ip : IPs, ifidx : Ifidxs]

VARIABLES free_ports, tunnels, now, hellos, dns, kifaces, limits, monitored, alive,
          commanded, babel_futures, port_callbacks, contacts,
          routes, neighbors, counters, debt_inbox, balances, exit_requests, phase, round,
          last_read_input, last_read_output, wg_download, wg_upload, usage,
          since_down, since_up, unbilled_down, unbilled_up, overflow_checks

\* the tunnel manager's state, with the futures it has spawned, the
\* PortCallback messages of its mailbox and the number of PeersToContact
\* messages it has handled, and the state of the accounting actors
tm_vars == <<free_ports, tunnels, now, hellos, dns, kifaces, limits, monitored, alive,
             commanded, babel_futures, port_callbacks, contacts>>

acct_vars == <<routes, neighbors, counters, debt_inbox, balances, exit_requests, phase, round>>

\* the client traffic watcher: its two cursors, the kernel's counters of the one
\* peer on wg_exit, the UpdateUsage messages of its latest round, the bytes the
\* exit tunnel has moved since the latest successful round, the bytes it has
\* moved since the start less the bytes the watcher has counted, and whether the
\* binary was built with overflow checks (no build profile is under src/)
client_vars == <<last_read_input, last_read_output, wg_download, wg_upload, usage,
                 since_down, since_up, unbilled_down, unbilled_up, overflow_checks>>

vars == <<tm_vars, acct_vars, client_vars>>

\* ---- Vec<u16> free_ports as a multiset
PoolPorts(fp) == {p \in Ports : fp[p] > 0}

Push(fp, p) == [fp EXCEPT ![p] = @ + 1]

Remove(fp, p) == [fp EXCEPT ![p] = @ - 1]

RECURSIVE SumOver(_, _)
SumOver(f, S) == IF S = {} THEN 0 ELSE LET x == CHOOSE y \in S : TRUE IN f[x] + SumOver(f, S \ {x})

PoolSize(fp) == SumOver(fp, Ports)

\* ---- Tunnel
Paid == "Paid"
Overdue == "Overdue"
Registered == "Registered"
NotRegistered == "NotRegistered"

Tunnel_new(ip, iface_name, our_listen_port, ifidx, their_id, t) ==
  [ip |-> ip, iface_name |-> iface_name, listen_ifidx |-> ifidx,
   listen_port |-> our_listen_port, neigh_id |-> their_id, last_contact |-> t,
   state |-> [payment_state |-> Paid, registration_state |-> Registered]]

\* all tunnels of the storage, and the live tunnels as (identity key, position) pairs
Slots(tun) == {<<k, i>> \in Ids \X (1..(2 * MaxIf)) : i <= Len(tun[k])}

AllTunnels(tun) == {tun[s[1]][s[2]] : s \in Slots(tun)}

\* ---- helpers of open_tunnel
have_tunnel_by_ip(ip, ts) == \E i \in 1..Len(ts) : ts[i].ip = ip

have_tunnel_by_ifidx(ifidx, ts) == \E i \in 1..Len(ts) : ts[i].listen_ifidx = ifidx

get_tunnel_by_ifidx(ifidx, ts) ==
  LET i == CHOOSE j \in 1..Len(ts) :
             /\ ts[j].listen_ifidx = ifidx
             /\ \A k \in 1..(j - 1) : ts[k].listen_ifidx # ifidx
  IN ts[i]

del_tunnel(to_del, ts) == SelectSeq(ts, LAMBDA val : val # to_del)

\* ---- get_port: the set of possible results of get_port(level) on pool fp when
\* a successful read of the OS table gives `used`.  Each level draws any port of
\* the pool; the read of the table may fail at any level.
\* level is the recursion level at which the result was produced: level + 1
\* draws were made
RECURSIVE get_port(_, _, _)
get_port(fp, level, used) ==
  IF PoolPorts(fp) = {}
  THEN {[res |-> "Panic", port |-> 0, fp |-> fp, level |-> level]}
  ELSE UNION { LET fp1 == Remove(fp, p) IN
                 {[res |-> "None", port |-> 0, fp |-> fp1, level |-> level]}
                 \cup (IF p \in used
                       THEN (IF level < RetryLimit
                             THEN get_port(Push(fp1, p), level + 1, used)
                             ELSE {[res |-> "Panic", port |-> 0, fp |-> fp1, level |-> level]})
                       ELSE {[res |-> "Some", port |-> p, fp |-> fp1, level |-> level]})
             : p \in PoolPorts(fp) }

\* ---- the state a handler works on: the actor's fields, the environment's
\* state, and what the handler did (kernel and routing-daemon calls, result)
Ret(kind, ts, existed) == [kind |-> kind, tunnel |-> ts, existed |-> existed]

Cur ==
  [fp |-> free_ports, tun |-> tunnels, kif |-> kifaces, lim |-> limits,
   hel |-> hellos, dns |-> dns, cmd |-> commanded, fut |-> <<>>, pcb |-> <<>>,
   calls |-> <<>>, ret |-> Ret("Unit", <<>>, FALSE), panic |-> FALSE, overflow |-> FALSE]

\* KI.setup_wg_if: the lowest wg<n> that names no existing interface
FreeNames(kif) == IfNames \ kif

setup_wg_if(kif) == CHOOSE n \in FreeNames(kif) : \A m \in FreeNames(kif) : n <= m

\* KI.del_interface(iface): on success the interface and its qdisc are gone
del_interface(s, iface, ok) ==
  [s EXCEPT !.calls = Append(@, <<"del_interface", iface>>),
            !.kif = IF ok THEN @ \ {iface} ELSE @,
            !.lim = IF ok THEN [@ EXCEPT ![iface] = 0] ELSE @]

\* Tunnel::monitor / Tunnel::unmonitor: Arbiter::spawn of a future that will
\* connect to the routing daemon and send the command; nothing is sent yet.
\* cmd remembers the interfaces whose latest command, sent or not, is monitor.
BabelCommand(op, iface) == [op |-> op, iface |-> iface]

monitor(s, iface) ==
  [s EXCEPT !.calls = Append(@, <<"monitor", iface>>),
            !.fut = Append(@, BabelCommand("monitor", iface)),
            !.cmd = @ \cup {iface}]

unmonitor(s, iface) ==
  [s EXCEPT !.calls = Append(@, <<"unmonitor", iface>>),
            !.fut = Append(@, BabelCommand("unmonitor", iface)),
            !.cmd = @ \ {iface}]

\* ---- open_tunnel
we_have_tunnel(tun, key, peer) ==
  have_tunnel_by_ifidx(peer.ifidx, tun[key]) /\ have_tunnel_by_ip(peer.ip, tun[key])

\* a variant that takes an unknown have_tunnel for "they have none"
they_have_tunnel_NoneIsFalse(lid) == lid.have_tunnel = "SomeTrue"

\* match their_localid.have_tunnel { Some(v) => v, None => true }
they_have_tunnel(lid) == IF lid.have_tunnel = "SomeFalse" THEN FALSE ELSE TRUE

bump_last_contact(ts, peer, t) ==
  [i \in 1..Len(ts) |->
     IF ts[i].listen_ifidx = peer.ifidx /\ ts[i].ip = peer.ip
     THEN [ts[i] EXCEPT !.last_contact = t]
     ELSE ts[i]]

\* "Create new tunnel": setup_wg_if().unwrap(), Tunnel::new, open, monitor, insert
open_tunnel_create(s, lid, peer, our_port, return_bool, t, env) ==
  IF ~env.setup_ok
  THEN [s EXCEPT !.calls = Append(@, <<"setup_wg_if", -1>>), !.panic = TRUE,
                 !.ret = Ret("Panic", <<>>, FALSE)]
  ELSE IF FreeNames(s.kif) = {}
  THEN [s EXCEPT !.overflow = TRUE]
  ELSE LET name == setup_wg_if(s.kif)
           tunnel == Tunnel_new(peer.ip, name, our_port, peer.ifidx, lid, t)
           s1 == [s EXCEPT !.kif = @ \cup {name},
                           !.calls = @ \o << <<"setup_wg_if", name>>, <<"open", name>> >>]
       IN IF ~env.open_ok
          THEN [s1 EXCEPT !.ret = Ret("None", <<>>, FALSE)]
          ELSE LET s2 == monitor([s1 EXCEPT !.lim[name] = 0], name)
               IN [s2 EXCEPT !.tun[lid.global] = Append(@, tunnel),
                             !.ret = Ret("Some", <<tunnel>>, return_bool)]

open_tunnel(s, lid, peer, our_port, t, env) ==
  LET key == lid.global IN
  IF we_have_tunnel(s.tun, key, peer)
  THEN LET ts1 == bump_last_contact(s.tun[key], peer, t)
           s1 == [s EXCEPT !.tun[key] = ts1]
       IN IF they_have_tunnel(lid)
          THEN [s1 EXCEPT !.fp = Push(@, our_port),
                          !.ret = Ret("Some", <<get_tunnel_by_ifidx(peer.ifidx, ts1)>>, TRUE)]
          ELSE LET value == get_tunnel_by_ifidx(peer.ifidx, ts1)
                   s2 == del_interface([s1 EXCEPT !.tun[key] = del_tunnel(value, ts1)],
                                       value.iface_name, env.del_ok)
                   s3 == [s2 EXCEPT !.fp = Push(@, value.listen_port)]
               IN open_tunnel_create(s3, lid, peer, our_port, TRUE, t, env)
  ELSE open_tunnel_create(s, lid, peer, our_port, FALSE, t, env)

\* ---- Handler<IdentityCallback>: our_port is <<>> (None) or <<p>> (Some(p))
IdentityCallback(s, lid, peer, our_port, used, t, env) ==
  IF our_port # <<>>
  THEN {open_tunnel(s, lid, peer, our_port[1], t, env)}
  ELSE { IF o.res = "Some"
         THEN open_tunnel([s EXCEPT !.fp = o.fp], lid, peer, o.port, t, env)
         ELSE IF o.res = "None"
         THEN [s EXCEPT !.fp = o.fp, !.ret = Ret("None", <<>>, FALSE)]
         ELSE [s EXCEPT !.fp = o.fp, !.panic = TRUE, !.ret = Ret("Panic", <<>>, FALSE)]
       : o \in get_port(s.fp, 0, used) }

\* ---- Handler<PortCallback>
\* a variant that forgets the port it is given
PortCallback_Dropped(s, port) == s

PortCallback(s, port) == [s EXCEPT !.fp = Push(@, port)]

\* ---- Handler<TriggerGC>
Fresh(tn, t, T) == t - tn.last_contact < T

\* a variant that rebuilds the map with every good tunnel under one identity
gc_good_Misfiled(tun, t, T) ==
  [k \in Ids |-> IF k = "idA"
                 THEN SelectSeq(tun["idA"] \o tun["idB"], LAMBDA tn : Fresh(tn, t, T))
                 ELSE <<>>]

gc_good(tun, t, T) == [k \in Ids |-> SelectSeq(tun[k], LAMBDA tn : Fresh(tn, t, T))]

gc_timed_out(tun, t, T) == [k \in Ids |-> SelectSeq(tun[k], LAMBDA tn : ~Fresh(tn, t, T))]

\* the tunnels of a map in the order an iteration visits them: the identities in
\* the HashMap's order, each identity's Vec front to back
RECURSIVE Flatten(_, _)
Flatten(tun, order) ==
  IF order = <<>> THEN <<>> ELSE tun[Head(order)] \o Flatten(tun, Tail(order))

\* a variant that gives the port back before it deletes the interface
RECURSIVE gc_destroy_PushFirst(_, _, _)
gc_destroy_PushFirst(s, stale, bad) ==
  IF stale = <<>>
  THEN [s EXCEPT !.ret = Ret("Ok", <<>>, FALSE)]
  ELSE LET tn == Head(stale)
           ok == tn.iface_name \notin bad
           s0 == [s EXCEPT !.fp = Push(@, tn.listen_port)]
           s1 == del_interface(unmonitor(s0, tn.iface_name), tn.iface_name, ok)
       IN IF ~ok
          THEN [s1 EXCEPT !.ret = Ret("Err", <<>>, FALSE)]
          ELSE gc_destroy_PushFirst(s1, Tail(stale), bad)

\* for tunnel in timed_out: unmonitor; del_interface?; free_ports.push
RECURSIVE gc_destroy(_, _, _)
gc_destroy(s, stale, bad) ==
  IF stale = <<>>
  THEN [s EXCEPT !.ret = Ret("Ok", <<>>, FALSE)]
  ELSE LET tn == Head(stale)
           ok == tn.iface_name \notin bad
           s1 == del_interface(unmonitor(s, tn.iface_name), tn.iface_name, ok)
       IN IF ~ok
          THEN [s1 EXCEPT !.ret = Ret("Err", <<>>, FALSE)]
          ELSE gc_destroy([s1 EXCEPT !.fp = Push(@, tn.listen_port)], Tail(stale), bad)

\* a variant that stores the good tunnels only once every interface is gone:
\* the order the comment in the handler warns against
TriggerGC_StoreAfterDestroy(s, T, t, order, bad) ==
  LET r == gc_destroy(s, Flatten(gc_timed_out(s.tun, t, T), order), bad)
  IN IF r.ret.kind = "Ok" THEN [r EXCEPT !.tun = gc_good(s.tun, t, T)] ELSE r

TriggerGC(s, T, t, order, bad) ==
  gc_destroy([s EXCEPT !.tun = gc_good(s.tun, t, T)],
             Flatten(gc_timed_out(s.tun, t, T), order), bad)

\* ---- Handler<TunnelStateChange>
TunnelActions == {"MembershipConfirmed", "MembershipExpired", "PaidOnTime", "PaymentOverdue"}

\* KI.has_limit
has_limit(lim, iface) == lim[iface] > 0

\* does the kernel call op on iface fail in this step
KFailed(kfail, op, iface) == kfail.op = op /\ kfail.iface = iface

limited_interfaces(tun) ==
  Cardinality({sl \in Slots(tun) : tun[sl[1]][sl[2]].state.payment_state = Overdue})

\* a variant that gives every limited interface the whole free tier
bw_per_iface_Undivided(tun) == FreeTierThroughput

bw_per_iface(tun) ==
  IF limited_interfaces(tun) > 0
  THEN FreeTierThroughput \div limited_interfaces(tun)
  ELSE FreeTierThroughput

\* a variant that sets a limit only on the Overdue tunnels that have none yet
RECURSIVE bw_limit_loop_KeepOldLimits(_, _, _, _)
bw_limit_loop_KeepOldLimits(s, todo, bw, kfail) ==
  IF todo = <<>> THEN s
  ELSE LET tn == Head(todo)
           ifc == tn.iface_name
           s1 == [s EXCEPT !.calls = Append(@, <<"has_limit", ifc>>)]
       IN IF KFailed(kfail, "has_limit", ifc) THEN s1
          ELSE IF tn.state.payment_state = Overdue /\ ~has_limit(s.lim, ifc)
          THEN LET s2 == [s1 EXCEPT !.calls = Append(@, <<"set_classless_limit", ifc, bw>>)]
               IN IF KFailed(kfail, "set_classless_limit", ifc) THEN s2
                  ELSE bw_limit_loop_KeepOldLimits([s2 EXCEPT !.lim[ifc] = bw],
                                                   Tail(todo), bw, kfail)
          ELSE IF tn.state.payment_state = Paid /\ has_limit(s.lim, ifc)
          THEN LET s2 == [s1 EXCEPT !.calls = Append(@, <<"set_codel_shaping", ifc>>)]
               IN IF KFailed(kfail, "set_codel_shaping", ifc) THEN s2
                  ELSE bw_limit_loop_KeepOldLimits([s2 EXCEPT !.lim[ifc] = 0],
                                                   Tail(todo), bw, kfail)
          ELSE bw_limit_loop_KeepOldLimits(s1, Tail(todo), bw, kfail)

\* the second loop of tunnel_bw_limit_update over the tunnels still to visit
RECURSIVE bw_limit_loop(_, _, _, _)
bw_limit_loop(s, todo, bw, kfail) ==
  IF todo = <<>> THEN s
  ELSE LET tn == Head(todo)
           ifc == tn.iface_name
           s1 == [s EXCEPT !.calls = Append(@, <<"has_limit", ifc>>)]
       IN IF KFailed(kfail, "has_limit", ifc) THEN s1
          ELSE IF tn.state.payment_state = Overdue
          THEN LET s2 == [s1 EXCEPT !.calls = Append(@, <<"set_classless_limit", ifc, bw>>)]
               IN IF KFailed(kfail, "set_classless_limit", ifc) THEN s2
                  ELSE bw_limit_loop([s2 EXCEPT !.lim[ifc] = bw], Tail(todo), bw, kfail)
          ELSE IF tn.state.payment_state = Paid /\ has_limit(s.lim, ifc)
          THEN LET s2 == [s1 EXCEPT !.calls = Append(@, <<"set_codel_shaping", ifc>>)]
               IN IF KFailed(kfail, "set_codel_shaping", ifc) THEN s2
                  ELSE bw_limit_loop([s2 EXCEPT !.lim[ifc] = 0], Tail(todo), bw, kfail)
          ELSE bw_limit_loop(s1, Tail(todo), bw, kfail)

tunnel_bw_limit_update(s, order, kfail) ==
  bw_limit_loop(s, Flatten(s.tun, order), bw_per_iface(s.tun), kfail)

\* a variant in which MembershipExpired leaves a Registered tunnel Registered
registration_step_NoExpiry(tn, action) ==
  IF action = "MembershipConfirmed" /\ tn.state.registration_state = NotRegistered
  THEN Registered
  ELSE tn.state.registration_state

\* one tunnel under one action: the match on action and on the tunnel's state
registration_step(tn, action) ==
  IF action = "MembershipConfirmed" /\ tn.state.registration_state = NotRegistered
  THEN Registered
  ELSE IF action = "MembershipExpired" /\ tn.state.registration_state = Registered
  THEN NotRegistered
  ELSE tn.state.registration_state

\* a variant in which a tunnel whose membership expires is also made Overdue
payment_step_ExpiryMeansOverdue(tn, action) ==
  IF action = "PaidOnTime" /\ tn.state.payment_state = Overdue
  THEN Paid
  ELSE IF action \in {"PaymentOverdue", "MembershipExpired"} /\ tn.state.payment_state = Paid
  THEN Overdue
  ELSE tn.state.payment_state

\* a variant in which PaidOnTime does not bring an Overdue tunnel back to Paid
payment_step_NoReturnToPaid(tn, action) ==
  IF action = "PaymentOverdue" /\ tn.state.payment_state = Paid
  THEN Overdue
  ELSE tn.state.payment_state

payment_step(tn, action) ==
  IF action = "PaidOnTime" /\ tn.state.payment_state = Overdue
  THEN Paid
  ELSE IF action = "PaymentOverdue" /\ tn.state.payment_state = Paid
  THEN Overdue
  ELSE tn.state.payment_state

\* a variant that applies the action to the first tunnel of the identity only
state_change_loop_FirstOnly(s, id, action, i) ==
  IF i > Len(s.tun[id]) THEN s
  ELSE LET tn == s.tun[id][i]
           reg == registration_step(tn, action)
           s1 == [s EXCEPT !.tun[id][i].state =
                             [payment_state |-> payment_step(tn, action),
                              registration_state |-> reg]]
       IN IF reg = tn.state.registration_state THEN s1
          ELSE IF reg = Registered THEN monitor(s1, tn.iface_name)
          ELSE unmonitor(s1, tn.iface_name)

\* for tunnel in tunnels.iter_mut(): from position i on
RECURSIVE state_change_loop(_, _, _, _)
state_change_loop(s, id, action, i) ==
  IF i > Len(s.tun[id]) THEN s
  ELSE LET tn == s.tun[id][i]
           reg == registration_step(tn, action)
           s1 == [s EXCEPT !.tun[id][i].state =
                             [payment_state |-> payment_step(tn, action),
                              registration_state |-> reg]]
           s2 == IF reg = tn.state.registration_state THEN s1
                 ELSE IF reg = Registered THEN monitor(s1, tn.iface_name)
                 ELSE unmonitor(s1, tn.iface_name)
       IN state_change_loop(s2, id, action, i + 1)

\* a variant that asks for the bandwidth-limit update whenever the identity has a tunnel
tunnel_bw_limits_need_change_Always(tun, id, action) == tun[id] # <<>>

tunnel_bw_limits_need_change(tun, id, action) ==
  \E i \in 1..Len(tun[id]) : payment_step(tun[id][i], action) # tun[id][i].state.payment_state

tunnel_state_change(s, msg, order, kfail) ==
  LET s1 == state_change_loop(s, msg.identity, msg.action, 1)
  IN IF tunnel_bw_limits_need_change(s.tun, msg.identity, msg.action)
     THEN tunnel_bw_limit_update(s1, order, kfail)
     ELSE s1

RECURSIVE TunnelStateChange(_, _, _, _)
TunnelStateChange(s, batch, order, kfail) ==
  IF batch = <<>>
  THEN [s EXCEPT !.ret = Ret("Ok", <<>>, FALSE)]
  ELSE TunnelStateChange(tunnel_state_change(s, Head(batch), order, kfail),
                         Tail(batch), order, kfail)

\* ---- neighbor inquiries
\* contact_neighbor: manual_peers_route and the identity lookup may fail; if
\* they do not, a Hello carrying the speculative port is sent
contact_neighbor(s, peer, our_port, cbad) ==
  IF peer.ip \in cbad THEN s
  ELSE [s EXCEPT !.hel = @ (+) SetToBag({[peer |-> peer, port |-> our_port]})]

RECURSIVE contact_all(_, _, _, _)
contact_all(s, ips, our_port, cbad) ==
  IF ips = <<>> THEN s
  ELSE contact_all(contact_neighbor(s, [ip |-> Head(ips), ifidx |-> 0], our_port, cbad),
                   Tail(ips), our_port, cbad)

neighbor_inquiry(s, peer, used, cbad) ==
  { IF o.res = "Some" THEN contact_neighbor([s EXCEPT !.fp = o.fp], peer, o.port, cbad)
    ELSE IF o.res = "None" THEN [s EXCEPT !.fp = o.fp]
    ELSE [s EXCEPT !.fp = o.fp, !.panic = TRUE]
  : o \in get_port(s.fp, 0, used) }

\* the synchronous part of neighbor_inquiry_hostname: a port is drawn and the
\* DNS request is handed to the resolver
neighbor_inquiry_hostname(s, used) ==
  { IF o.res = "Some" THEN [s EXCEPT !.fp = o.fp, !.dns = @ (+) SetToBag({o.port})]
    ELSE IF o.res = "None" THEN [s EXCEPT !.fp = o.fp]
    ELSE [s EXCEPT !.fp = o.fp, !.panic = TRUE]
  : o \in get_port(s.fp, 0, used) }

\* the resolver answered Ok(Ok(dnsresult))
dns_resolved(s, our_port, dnsresult, is_gateway, cbad) ==
  LET s1 == [s EXCEPT !.dns = @ (-) SetToBag({our_port})]
  IN IF dnsresult # <<>> /\ is_gateway
     THEN contact_all(s1, dnsresult, our_port, cbad)
     ELSE s1

\* the resolver answered Ok(Err(e)), or the request ended in Err(e) (mailbox
\* failure, timeout): do_send(PortCallback(our_port)) to the TunnelManager
dns_failed(s, our_port) ==
  [s EXCEPT !.dns = @ (-) SetToBag({our_port}), !.pcb = Append(@, our_port)]

\* Handler<PeersToContact>: todo is msg.peers in iteration order followed, on a
\* gateway, by the manual peers
RECURSIVE inquire_all(_, _, _, _)
inquire_all(S, todo, used, cbad) ==
  IF todo = <<>> THEN S
  ELSE inquire_all(
         UNION { IF s.panic THEN {s}
                 ELSE IF Head(todo).kind = "host"
                 THEN neighbor_inquiry_hostname(s, used)
                 ELSE neighbor_inquiry(s, Head(todo).peer, used, cbad)
               : s \in S },
         Tail(todo), used, cbad)

PeerItem(peer) == [kind |-> "peer", peer |-> peer]

ManualIp(ip) == [kind |-> "peer", peer |-> [ip |-> ip, ifidx |-> 0]]

ManualHost == [kind |-> "host", peer |-> [ip |-> "none", ifidx |-> 0]]

PeersToContact(s, peers, is_gateway, manual_peers, used, cbad) ==
  inquire_all({s}, peers \o (IF is_gateway THEN manual_peers ELSE <<>>), used, cbad)

\* ---- inputs
\* the results of the environment's calls in one IdentityCallback: at most one
\* of them goes wrong
Env(used, del_ok, setup_ok, open_ok) ==
  [used |-> used, del_ok |-> del_ok, setup_ok |-> setup_ok, open_ok |-> open_ok]

OpenEnvs ==
  {Env({}, TRUE, TRUE, TRUE), Env({}, FALSE, TRUE, TRUE), Env({}, TRUE, FALSE, TRUE),
   Env({}, TRUE, TRUE, FALSE)}
  \cup {Env(u, TRUE, TRUE, TRUE) : u \in UsedTables}

IdOrders == {o \in [1..Cardinality(Ids) -> Ids] : \A i, j \in DOMAIN o : i # j => o[i] # o[j]}

BadIfaces == {{}} \cup {{n} : n \in IfNames}

KFails ==
  {[op |-> "none", iface |-> -1]}
  \cup [op : {"has_limit", "set_classless_limit", "set_codel_shaping"}, iface : IfNames]

RECURSIVE SeqsUpTo(_, _)
SeqsUpTo(S, n) ==
  IF n = 0 THEN {<<>>}
  ELSE LET shorter == SeqsUpTo(S, n - 1)
       IN shorter \cup {Append(q, x) : q \in shorter, x \in S}

Batches == SeqsUpTo([identity : Ids, action : TunnelActions], MaxBatch) \ {<<>>}

\* the peer listener hears neighbors on physical interfaces; ifidx 0 is what
\* PeersToContact gives to manual peers
DiscoveredPeers == {p \in Peers : p.ifidx # 0}

PeerLists ==
  {q \in SeqsUpTo({PeerItem(p) : p \in DiscoveredPeers}, MaxPeers) :
     \A i, j \in DOMAIN q : i # j => q[i].peer.ip # q[j].peer.ip}

ManualPeerLists == {<<>>, <<ManualIp("ip2")>>, <<ManualHost>>}

ContactFailures == {{}, {"ip1"}}

\* PeersToContact's readings of the environment: the manual peers are read on a
\* gateway only, and at most one of the environment's calls goes wrong
ContactEnvs ==
  {[used |-> u, cbad |-> {}] : u \in UsedTables}
  \cup {[used |-> {}, cbad |-> c] : c \in ContactFailures}

GatewaySettings ==
  {[is_gateway |-> TRUE, manual_peers |-> m] : m \in ManualPeerLists}
  \cup {[is_gateway |-> FALSE, manual_peers |-> <<>>]}

DnsResults == {<<>>, <<"ip1">>, <<"ip1", "ip1">>, <<"ip1", "ip2">>}

\* what the resolver gives back and whether we are a gateway when it does
DnsAnswers ==
  {[is_gateway |-> TRUE, dnsresult |-> res] : res \in DnsResults}
  \cup {[is_gateway |-> FALSE, dnsresult |-> <<"ip1">>]}

\* ---- accounting: the relay traffic watcher, the client's exit-debt query,
\* the debt keeper's ledger and the phases of a round

\* Identity { mesh_ip, eth_address, wg_public_key }; the payment address
\* follows the key here
Identity(ip, key) == [mesh_ip |-> ip, wg_public_key |-> key]

IdA == Identity("ipA", "k1")

\* a second identity announcing the mesh address of IdA under another key
IdA2 == Identity("ipA", "k2")

IdB == Identity("ipB", "k1")

ExitId == Identity("ipE", "k1")

WatchIdentities == {IdA, IdA2, IdB}

Identities == WatchIdentities \cup {ExitId}

WgIfaces == {"wgA", "wgB"}

\* SETTING.get_network().mesh_ip
OwnIp == "ipOwn"

MeshIpSettings == {<<>>, <<OwnIp>>}

DstIps == {"ipX", OwnIp}

\* Neighbor { identity, iface_name, .. }: identity stands for identity.global
WatchNeighbors == [identity : WatchIdentities, iface_name : WgIfaces]

NeighborLists == SeqsUpTo(WatchNeighbors, MaxNeighbors)

\* Route { prefix, installed, price, .. }; a prefix is an address, its length
\* and its family
Prefix(ip, len, v6) == [ip |-> ip, len |-> len, v6 |-> v6]

Route(prefix, installed, price) == [prefix |-> prefix, installed |-> installed, price |-> price]

Routes ==
  {Route(Prefix("ipX", 128, TRUE), TRUE, 5), Route(Prefix("ipX", 128, TRUE), TRUE, 200),
   Route(Prefix("ipX", 128, TRUE), FALSE, 3),
   Route(Prefix("ipX", 64, TRUE), TRUE, 3), Route(Prefix("ipX", 32, FALSE), TRUE, 3),
   Route(Prefix(OwnIp, 128, TRUE), TRUE, 5)}

RouteTables == SeqsUpTo(Routes, MaxRoutes)

\* HashMap::new, HashMap::insert and the values of a HashMap
EmptyMap == [k \in {} |-> 0]

MapPut(m, k, v) == [x \in DOMAIN m \cup {k} |-> IF x = k THEN v ELSE m[x]]

MapRange(m) == {m[k] : k \in DOMAIN m}

\* the kernel's four counter tables, each (destination, interface) -> bytes
FilterTargets == {"Input", "ForwardInput", "Output", "ForwardOutput"}

CounterKey(ip, iface) == [ip |-> ip, iface |-> iface]

CounterRows == [target : FilterTargets, ip : DstIps, iface : WgIfaces]

\* the bytes a row of each table has counted since the last read
RowBytes == [t \in FilterTargets |->
  CASE t = "Input" -> 200 [] t = "ForwardInput" -> 1000 [] t = "Output" -> 300 [] OTHER -> 500]

RECURSIVE SetsUpTo(_, _)
SetsUpTo(S, n) ==
  IF n = 0 THEN {{}}
  ELSE LET smaller == SetsUpTo(S, n - 1)
       IN smaller \cup {R \cup {x} : R \in smaller, x \in S}

KernelCounters(R) ==
  [t \in FilterTargets |->
    [k \in {CounterKey(r.ip, r.iface) : r \in {x \in R : x.target = t}} |-> RowBytes[t]]]

CounterStates == {KernelCounters(R) : R \in SetsUpTo(CounterRows, MaxRows)}

\* which read of the round fails, if any
ReadFailures == FilterTargets \cup {"none"}

\* KI.read_counters(target): the table, which the read sets back to zero
read_counters(kc, target, fail) ==
  IF fail = target THEN [ok |-> FALSE, table |-> EmptyMap, kc |-> kc]
  ELSE [ok |-> TRUE, table |-> kc[target], kc |-> [kc EXCEPT ![target] = EmptyMap]]

\* messages to the debt keeper; the Vec of a TrafficUpdate is built from a
\* HashMap, one Traffic per identity in no particular order: a map here
TrafficUpdateMsg(traffic) == [type |-> "TrafficUpdate", traffic |-> traffic]

TrafficReplaceMsg(from, amount) ==
  [type |-> "TrafficReplace", traffic |-> [from |-> from, amount |-> amount]]

RECURSIVE helper_maps_loop(_, _, _)
helper_maps_loop(neighs, identities, if_to_id) ==
  IF neighs = <<>> THEN [identities |-> identities, if_to_id |-> if_to_id]
  ELSE LET neigh == Head(neighs)
       IN helper_maps_loop(Tail(neighs),
                           MapPut(identities, neigh.identity.mesh_ip, neigh.identity),
                           MapPut(if_to_id, neigh.iface_name, neigh.identity))

prepare_helper_maps(neighs) == helper_maps_loop(neighs, EmptyMap, EmptyMap)

\* the price of a route, capped by max_fee
capped_price(route) == IF route.price > MaxFee THEN MaxFee ELSE route.price

\* a variant that also prices the host routes that are not installed
RECURSIVE destinations_loop_NotInstalledToo(_, _)
destinations_loop_NotInstalledToo(rts, destinations) ==
  IF rts = <<>> THEN destinations
  ELSE LET route == Head(rts)
       IN destinations_loop_NotInstalledToo(Tail(rts),
            IF route.prefix.v6 /\ route.prefix.len = 128
            THEN MapPut(destinations, route.prefix.ip, capped_price(route) + LocalFee)
            ELSE destinations)

\* price + local_fee is a u32 sum of two values that are at most MaxFee and
\* LocalFee: within the width under these settings
RECURSIVE destinations_loop(_, _)
destinations_loop(rts, destinations) ==
  IF rts = <<>> THEN destinations
  ELSE LET route == Head(rts)
       IN destinations_loop(Tail(rts),
            IF route.prefix.v6 /\ route.prefix.len = 128 /\ route.installed
            THEN MapPut(destinations, route.prefix.ip, capped_price(route) + LocalFee)
            ELSE destinations)

get_babel_info(rts, mesh_ip) ==
  IF mesh_ip = <<>>
  THEN [ok |-> FALSE, destinations |-> EmptyMap, local_fee |-> LocalFee]
  ELSE [ok |-> TRUE, local_fee |-> LocalFee,
        destinations |-> MapPut(destinations_loop(rts, EmptyMap), mesh_ip[1], 0)]

\* *entry(k).or_insert(0) += v over both tables
total_counters(a, b) ==
  [k \in DOMAIN a \cup DOMAIN b |->
    (IF k \in DOMAIN a THEN a[k] ELSE 0) + (IF k \in DOMAIN b THEN b[k] ELSE 0)]

read_both(kc, first, second, fail) ==
  LET r1 == read_counters(kc, first, fail)
      r2 == read_counters(r1.kc, second, fail)
  IN IF ~r1.ok THEN [ok |-> FALSE, total |-> EmptyMap, kc |-> r1.kc]
     ELSE IF ~r2.ok THEN [ok |-> FALSE, total |-> EmptyMap, kc |-> r2.kc]
     ELSE [ok |-> TRUE, total |-> total_counters(r1.table, r2.table), kc |-> r2.kc]

get_input_counters(kc, fail) == read_both(kc, "Input", "ForwardInput", fail)

get_output_counters(kc, fail) == read_both(kc, "Output", "ForwardOutput", fail)

RECURSIVE SumMap(_, _)
SumMap(m, keys) ==
  IF keys = {} THEN 0
  ELSE LET k == CHOOSE x \in keys : TRUE IN m[k] + SumMap(m, keys \ {k})

\* UpdateUsage { kind: Relay, up, down, price }
update_usage(input, output, our_fee) ==
  [kind |-> "Relay", up |-> SumMap(output, DOMAIN output),
   down |-> SumMap(input, DOMAIN input), price |-> our_fee]

\* a variant that gives up the loop at the first row it cannot account
RECURSIVE input_debts_StopAtUnknown(_, _, _, _, _)
input_debts_StopAtUnknown(debts, total, keys, destinations, if_to_id) ==
  IF keys = {} THEN debts
  ELSE LET k == CHOOSE x \in keys : TRUE
           known == /\ k.ip \in DOMAIN destinations
                    /\ k.iface \in DOMAIN if_to_id
                    /\ if_to_id[k.iface] \in DOMAIN debts
       IN IF known
          THEN input_debts_StopAtUnknown(
                 [debts EXCEPT ![if_to_id[k.iface]] = @ - destinations[k.ip] * total[k]],
                 total, keys \ {k}, destinations, if_to_id)
          ELSE debts

\* the loop over the input counters: the neighbor behind the interface is
\* debited the destination's price for every byte
RECURSIVE input_debts(_, _, _, _, _)
input_debts(debts, total, keys, destinations, if_to_id) ==
  IF keys = {} THEN debts
  ELSE LET k == CHOOSE x \in keys : TRUE
           known == /\ k.ip \in DOMAIN destinations
                    /\ k.iface \in DOMAIN if_to_id
                    /\ if_to_id[k.iface] \in DOMAIN debts
       IN input_debts(IF known
                      THEN [debts EXCEPT ![if_to_id[k.iface]] = @ - destinations[k.ip] * total[k]]
                      ELSE debts,
                      total, keys \ {k}, destinations, if_to_id)

\* the loop over the output counters: the neighbor behind the interface is
\* credited the destination's price less our fee for every byte
RECURSIVE output_debts(_, _, _, _, _, _)
output_debts(debts, total, keys, destinations, if_to_id, local_fee) ==
  IF keys = {} THEN debts
  ELSE LET k == CHOOSE x \in keys : TRUE
           known == /\ k.ip \in DOMAIN destinations
                    /\ k.iface \in DOMAIN if_to_id
                    /\ if_to_id[k.iface] \in DOMAIN debts
       IN output_debts(IF known
                       THEN [debts EXCEPT ![if_to_id[k.iface]] =
                                            @ + (destinations[k.ip] - local_fee) * total[k]]
                       ELSE debts,
                       total, keys \ {k}, destinations, if_to_id, local_fee)

\* a variant that sends the debts of the input counters when the read of the
\* output counters fails
watch_PartialOnOutputFailure(rts, neighs, kc, mesh_ip, fail) ==
  LET maps == prepare_helper_maps(neighs)
      babel == get_babel_info(rts, mesh_ip)
      inp == get_input_counters(kc, fail)
      out == get_output_counters(inp.kc, fail)
      debts0 == [id \in MapRange(maps.identities) |-> 0]
      debts1 == input_debts(debts0, inp.total, DOMAIN inp.total, babel.destinations,
                            maps.if_to_id)
      debts2 == output_debts(debts1, out.total, DOMAIN out.total, babel.destinations,
                             maps.if_to_id, babel.local_fee)
  IN IF ~babel.ok THEN [ok |-> FALSE, sent |-> <<>>, usage |-> <<>>, kc |-> kc]
     ELSE IF ~inp.ok THEN [ok |-> FALSE, sent |-> <<>>, usage |-> <<>>, kc |-> inp.kc]
     ELSE IF ~out.ok
     THEN [ok |-> FALSE, sent |-> <<TrafficUpdateMsg(debts1)>>, usage |-> <<>>, kc |-> out.kc]
     ELSE [ok |-> TRUE, sent |-> <<TrafficUpdateMsg(debts2)>>,
           usage |-> <<update_usage(inp.total, out.total, babel.local_fee)>>, kc |-> out.kc]

\* watch(routes, neighbors): what it sends to the debt keeper and to the usage
\* tracker, and the kernel's counters after its reads
watch(rts, neighs, kc, mesh_ip, fail) ==
  LET maps == prepare_helper_maps(neighs)
      babel == get_babel_info(rts, mesh_ip)
      inp == get_input_counters(kc, fail)
      out == get_output_counters(inp.kc, fail)
      debts0 == [id \in MapRange(maps.identities) |-> 0]
      debts1 == input_debts(debts0, inp.total, DOMAIN inp.total, babel.destinations,
                            maps.if_to_id)
      debts2 == output_debts(debts1, out.total, DOMAIN out.total, babel.destinations,
                             maps.if_to_id, babel.local_fee)
  IN IF ~babel.ok THEN [ok |-> FALSE, sent |-> <<>>, usage |-> <<>>, kc |-> kc]
     ELSE IF ~inp.ok THEN [ok |-> FALSE, sent |-> <<>>, usage |-> <<>>, kc |-> inp.kc]
     ELSE IF ~out.ok THEN [ok |-> FALSE, sent |-> <<>>, usage |-> <<>>, kc |-> out.kc]
     ELSE [ok |-> TRUE, sent |-> <<TrafficUpdateMsg(debts2)>>,
           usage |-> <<update_usage(inp.total, out.total, babel.local_fee)>>, kc |-> out.kc]

\* ---- the client's QueryExitDebts: how the request to the exit ends
ExitDebts == {-17, 0, 42}

ExitOutcomes ==
  {[kind |-> k, debt |-> 0] : k \in {"ConnectErr", "RequestErr", "Timeout", "JsonErr"}}
  \cup {[kind |-> "Ok", debt |-> d] : d \in ExitDebts}

we_owe_exit_Strict(debt) == debt > 0

we_owe_exit(debt) == debt >= 0

exit_replace(exit_id, debt) == TrafficReplaceMsg(exit_id, debt)

\* the exit's address and port as the message holds them
ExitAddrs == {[family |-> "V4", text |-> "172.168.1.254"], [family |-> "V6", text |-> "fd00::1"]}

ExitPorts == {4875}

\* format!("{}:{}", exit_addr, exit_port): the address as Display prints it, an
\* IPv6 address without brackets, then a colon and the port
SocketText(exit_addr, exit_port) ==
  [family |-> exit_addr.family, host |-> exit_addr.text, bracketed |-> FALSE,
   port |-> exit_port]

\* str::parse::<SocketAddr>(): an IPv4 address and a port, or an IPv6 address
\* in brackets and a port; anything else is an error
SocketAddrParse(text) ==
  IF text.family = "V4" \/ text.bracketed
  THEN <<[ip |-> text.host, port |-> text.port]>>
  ELSE <<>>

\* the handler of QueryExitDebts: the unwrap of a socket address that does not
\* parse panics before the request is spawned; else the request is spawned and
\* the handler returns Ok(())
query_exit_debts(exit_addr, exit_port, exit_id, rnd) ==
  IF SocketAddrParse(SocketText(exit_addr, exit_port)) = <<>>
  THEN [panic |-> TRUE, spawned |-> <<>>]
  ELSE [panic |-> FALSE, spawned |-> <<[exit_id |-> exit_id, round |-> rnd]>>]

\* the future the handler spawns: what it sends to the debt keeper when the
\* connection, the request or the decoding of the answer ends
exit_debts_answer(exit_id, outcome) ==
  IF outcome.kind = "Ok" /\ we_owe_exit(outcome.debt)
  THEN <<exit_replace(exit_id, outcome.debt)>>
  ELSE <<>>

\* ---- the debt keeper's ledger
HandleTrafficUpdate(bal, traffic) ==
  [id \in DOMAIN bal |-> IF id \in DOMAIN traffic THEN bal[id] + traffic[id] ELSE bal[id]]

\* a variant that adds the amount of a TrafficReplace to the balance
HandleTrafficReplace_Adds(bal, traffic) ==
  [bal EXCEPT ![traffic.from] = @ + traffic.amount]

HandleTrafficReplace(bal, traffic) == [bal EXCEPT ![traffic.from] = traffic.amount]

DebtKeeperHandle(bal, m) ==
  IF m.type = "TrafficUpdate" THEN HandleTrafficUpdate(bal, m.traffic)
  ELSE HandleTrafficReplace(bal, m.traffic)

\* the accounting actors after construction
AccountingInit ==
  /\ debt_inbox = <<>>
  /\ balances = [id \in Identities |-> 0]
  /\ exit_requests = EmptyBag
  /\ phase = 1
  /\ round = 1
  /\ last_read_input = 0
  /\ last_read_output = 0
  /\ wg_download = 0
  /\ wg_upload = 0
  /\ usage = <<>>
  /\ since_down = 0
  /\ since_up = 0
  /\ unbilled_down = 0
  /\ unbilled_up = 0

\* ---- the futures spawned on the event loop that have not run yet: how many
\* of each command
BabelCommands == [op : {"monitor", "unmonitor"}, iface : IfNames]

NoFutures == [c \in BabelCommands |-> 0]

RECURSIVE Spawned(_, _)
Spawned(futs, new) ==
  IF new = <<>> THEN futs
  ELSE Spawned([futs EXCEPT ![Head(new)] = @ + 1], Tail(new))

FuturesPending(futs) == SumOver(futs, BabelCommands)

\* ---- a handler's result becomes the next state; a panic ends the process:
\* the actor's fields, its mailbox and the futures on its event loop are gone,
\* while the kernel keeps the interfaces and limits it held at the panic (kif,
\* lim: the kernel calls made before the panic have acted, the panic makes
\* none) and the routing daemon keeps its monitored set
Dead(kif, lim) ==
  /\ free_ports' = [p \in Ports |-> 0]
  /\ tunnels' = [k \in Ids |-> <<>>]
  /\ kifaces' = kif
  /\ limits' = lim
  /\ UNCHANGED monitored
  /\ commanded' = {}
  /\ babel_futures' = NoFutures
  /\ port_callbacks' = <<>>
  /\ hellos' = EmptyBag
  /\ dns' = EmptyBag
  /\ alive' = FALSE
  /\ now' = 0

CommitTunnelManager(r) ==
  /\ ~r.overflow
  /\ \A p \in Ports : r.fp[p] <= MaxDup
  /\ BagCardinality(r.hel) <= MaxInflight
  /\ BagCardinality(r.dns) <= MaxDns
  /\ Len(port_callbacks) + Len(r.pcb) <= MaxMailbox
  /\ FuturesPending(babel_futures) + Len(r.fut) <= MaxFutures
  /\ IF r.panic THEN Dead(r.kif, r.lim)
     ELSE /\ free_ports' = r.fp
          /\ tunnels' = r.tun
          /\ kifaces' = r.kif
          /\ limits' = r.lim
          /\ commanded' = r.cmd
          /\ babel_futures' = Spawned(babel_futures, r.fut)
          /\ port_callbacks' = port_callbacks \o r.pcb
          /\ hellos' = r.hel
          /\ UNCHANGED monitored
          /\ dns' = r.dns
          /\ alive' = TRUE
          /\ UNCHANGED now

Commit(r) == CommitTunnelManager(r) /\ UNCHANGED <<contacts, acct_vars, client_vars>>

TunnelManagerInit ==
  /\ free_ports = [p \in Ports |-> 1]
  /\ tunnels = [k \in Ids |-> <<>>]
  /\ now = 0
  /\ hellos = EmptyBag
  /\ dns = EmptyBag
  /\ kifaces = {}
  /\ limits = [n \in IfNames |-> 0]
  /\ monitored = {}
  /\ commanded = {}
  /\ babel_futures = NoFutures
  /\ port_callbacks = <<>>
  /\ contacts = 0
  /\ alive = TRUE

Init ==
  /\ TunnelManagerInit
  /\ AccountingInit
  /\ routes = <<>>
  /\ neighbors = <<>>
  /\ counters = KernelCounters({})
  /\ overflow_checks = FALSE

\* a neighbor's hello reaches our endpoint: IdentityCallback with our_port = None
PeerHello ==
  /\ alive
  /\ \E lid \in LocalIdentities, peer \in Peers, env \in OpenEnvs :
       /\ LivesAt(lid.global, peer)
       /\ \E r \in IdentityCallback(Cur, lid, peer, <<>>, env.used, now, env) : Commit(r)

\* a hello of ours is answered: IdentityCallback with the hello's speculative port
HelloAnswered ==
  /\ alive
  /\ \E h \in BagToSet(hellos), lid \in LocalIdentities, env \in OpenEnvs :
       /\ LivesAt(lid.global, h.peer)
       /\ env.used = {}
       /\ \E r \in IdentityCallback([Cur EXCEPT !.hel = @ (-) SetToBag({h})], lid, h.peer, <<h.port>>,
                                    env.used, now, env) : Commit(r)

\* a hello of ours fails: the hello handler sends PortCallback with its port
HelloFailed ==
  /\ alive
  /\ \E h \in BagToSet(hellos) : Commit([Cur EXCEPT !.hel = @ (-) SetToBag({h}), !.pcb = Append(@, h.port)])

\* the TunnelManager takes a PortCallback from its mailbox
PortCallbackMsg ==
  /\ alive
  /\ port_callbacks # <<>>
  /\ free_ports' = PortCallback(Cur, Head(port_callbacks)).fp
  /\ free_ports'[Head(port_callbacks)] <= MaxDup
  /\ port_callbacks' = Tail(port_callbacks)
  /\ UNCHANGED <<tunnels, now, hellos, dns, kifaces, limits, monitored, alive, commanded,
                 babel_futures, contacts>>
  /\ UNCHANGED <<acct_vars, client_vars>>

\* the event loop runs one of the spawned futures, in any order: it connects
\* to the routing daemon and sends its command, or fails to connect, logs the
\* error and ends, or connects to a daemon whose greeting start_connection
\* rejects, where expect("Unexpected babel version!") panics
BabelOutcomes == {"delivered", "failed", "panic"}

BabelFuture(outcomes) ==
  /\ alive
  /\ \E c \in BabelCommands, outcome \in outcomes :
       /\ babel_futures[c] > 0
       /\ IF outcome = "panic"
          THEN Dead(kifaces, limits) /\ UNCHANGED contacts
          ELSE /\ babel_futures' = [babel_futures EXCEPT ![c] = @ - 1]
               /\ monitored' = IF outcome = "failed" THEN monitored
                               ELSE IF c.op = "monitor" THEN monitored \cup {c.iface}
                               ELSE monitored \ {c.iface}
               /\ UNCHANGED <<free_ports, tunnels, now, hellos, dns, kifaces, limits, alive,
                              commanded, port_callbacks, contacts>>
  /\ UNCHANGED <<acct_vars, client_vars>>

BabelFutureRuns == BabelFuture(BabelOutcomes)

\* the same futures while the routing daemon cannot be reached
BabelFutureFails == BabelFuture({"failed"})

\* the resolver answers a hostname inquiry
DnsResolved ==
  /\ alive
  /\ \E d \in BagToSet(dns), ans \in DnsAnswers, cbad \in ContactFailures :
       Commit(dns_resolved(Cur, d, ans.dnsresult, ans.is_gateway, cbad))

\* the resolver fails or times out: PortCallback with the inquiry's port
DnsFailed ==
  /\ alive
  /\ \E d \in BagToSet(dns) : Commit(dns_failed(Cur, d))

\* a PeersToContact message, whatever is still in flight
PeersToContactMsg ==
  /\ alive
  /\ contacts < MaxContacts
  /\ \E peers \in PeerLists, set \in GatewaySettings, env \in ContactEnvs :
       \E r \in PeersToContact(Cur, peers, set.is_gateway, set.manual_peers,
                                env.used, env.cbad) : CommitTunnelManager(r)
  /\ contacts' = contacts + 1
  /\ UNCHANGED <<acct_vars, client_vars>>

TunnelStateChangeMsg ==
  /\ alive
  /\ \E batch \in Batches, order \in IdOrders, kfail \in KFails :
       Commit(TunnelStateChange(Cur, batch, order, kfail))

TriggerGCMsg ==
  /\ alive
  /\ \E T \in Durations, order \in IdOrders, bad \in BadIfaces :
       Commit(TriggerGC(Cur, T, now, order, bad))

\* time passes between two messages
Tick ==
  /\ alive
  /\ now < MaxTime
  /\ now' = now + 1
  /\ UNCHANGED <<free_ports, tunnels, hellos, dns, kifaces, limits, monitored, alive,
                 commanded, babel_futures, port_callbacks, contacts>>
  /\ UNCHANGED <<acct_vars, client_vars>>

\* the actor: every message of its mailbox and every future it has spawned, in
\* any order
Next ==
  \/ PeersToContactMsg
  \/ HelloAnswered
  \/ HelloFailed
  \/ DnsResolved
  \/ DnsFailed
  \/ PortCallbackMsg
  \/ PeerHello
  \/ TunnelStateChangeMsg
  \/ TriggerGCMsg
  \/ BabelFutureRuns
  \/ Tick

Spec == Init /\ [][Next]_vars

\* The specifications below take some of the actor's messages each, so that
\* every behaviour of one of them is a behaviour of Spec.

\* the actor contacting its neighbors: the speculative ports and their way
\* back, the tunnels of the answered hellos
NextContact ==
  \/ PeersToContactMsg
  \/ HelloAnswered
  \/ HelloFailed
  \/ DnsResolved
  \/ DnsFailed
  \/ PortCallbackMsg
  \/ BabelFutureRuns

SpecContact == Init /\ [][NextContact]_vars

\* ---- the same actor while every call into the kernel succeeds (the read of
\* the used-port table may still fail: that is get_port's own error value)
PeerHelloKernelOk ==
  /\ alive
  /\ \E lid \in LocalIdentities, peer \in Peers, used \in UsedTables :
       /\ LivesAt(lid.global, peer)
       /\ \E r \in IdentityCallback(Cur, lid, peer, <<>>, used, now,
                                    Env(used, TRUE, TRUE, TRUE)) : Commit(r)

TriggerGCKernelOk ==
  /\ alive
  /\ \E T \in Durations, order \in IdOrders : Commit(TriggerGC(Cur, T, now, order, {}))

TunnelStateChangeKernelOk ==
  /\ alive
  /\ \E batch \in Batches, order \in IdOrders :
       Commit(TunnelStateChange(Cur, batch, order, [op |-> "none", iface |-> -1]))

\* the actor contacted by its neighbors, the kernel failing or not, and driven
\* by the debt keeper
NextOpen ==
  \/ PeerHello
  \/ TunnelStateChangeKernelOk
  \/ BabelFutureRuns

SpecOpen == Init /\ [][NextOpen]_vars

\* the state machine of the tunnels the neighbors have opened
NextState ==
  \/ PeerHelloKernelOk
  \/ TunnelStateChangeKernelOk
  \/ BabelFutureRuns

SpecState == Init /\ [][NextState]_vars

\* the tunnels the neighbors have opened, growing stale and collected
NextGC ==
  \/ PeerHelloKernelOk
  \/ TriggerGCMsg
  \/ BabelFutureRuns
  \/ Tick

SpecGC == Init /\ [][NextGC]_vars

\* the three handlers together while the routing daemon cannot be reached
NextKernelOk ==
  \/ PeerHelloKernelOk
  \/ TriggerGCKernelOk
  \/ TunnelStateChangeKernelOk
  \/ BabelFutureFails
  \/ Tick

SpecKernelOk == Init /\ [][NextKernelOk]_vars

\* ---- the relay traffic watcher on every table of routes, list of neighbors
\* and state of the kernel's counters
InitWatch ==
  /\ TunnelManagerInit
  /\ AccountingInit
  /\ routes \in RouteTables
  /\ neighbors \in NeighborLists
  /\ counters \in CounterStates
  /\ overflow_checks = FALSE

\* a Watch message with the routes and neighbors of the round
WatchMsg ==
  /\ alive
  /\ Len(debt_inbox) < MaxInbox
  /\ \E mesh_ip \in MeshIpSettings, fail \in ReadFailures :
       LET o == watch(routes, neighbors, counters, mesh_ip, fail)
       IN /\ debt_inbox' = debt_inbox \o o.sent
          /\ counters' = o.kc
  /\ UNCHANGED <<routes, neighbors, balances, exit_requests, phase, round>>
  /\ UNCHANGED <<tm_vars, client_vars>>

NextWatch == WatchMsg

SpecWatch == InitWatch /\ [][NextWatch]_vars

\* ---- the round: its phases in the scheduler's order, the exit's answers and
\* the debt keeper's mailbox
RoundPhases ==
  <<"GC", "RouteRefresh", "WatchRelay", "WatchClient", "DebtReclassify", "TunnelStateChange">>

PhaseOf(name) == CHOOSE i \in DOMAIN RoundPhases : RoundPhases[i] = name

\* scenario S4 of the specification: its counters, routes and neighbors
ScenarioRows ==
  {[target |-> "ForwardInput", ip |-> "ipX", iface |-> "wgA"],
   [target |-> "ForwardOutput", ip |-> "ipY", iface |-> "wgB"]}

RoundRoutes ==
  {<<>>, <<Route(Prefix("ipX", 128, TRUE), TRUE, 5), Route(Prefix("ipY", 128, TRUE), TRUE, 3)>>}

RoundNeighbors ==
  {<<>>, <<[identity |-> IdA, iface_name |-> "wgA"], [identity |-> IdB, iface_name |-> "wgB"]>>}

InitAccounting ==
  /\ TunnelManagerInit
  /\ AccountingInit
  /\ routes = <<>>
  /\ neighbors = <<>>
  /\ counters \in {KernelCounters(R) : R \in SUBSET ScenarioRows}
  /\ overflow_checks = FALSE

GCPhase ==
  /\ alive
  /\ phase = PhaseOf("GC")
  /\ \E T \in Durations, order \in IdOrders, bad \in BadIfaces :
       CommitTunnelManager(TriggerGC(Cur, T, now, order, bad))
  /\ phase' = phase + 1
  /\ UNCHANGED <<routes, neighbors, counters, debt_inbox, balances, exit_requests, round>>
  /\ UNCHANGED <<contacts, client_vars>>

\* the routing daemon's table of the round
RouteRefreshPhase ==
  /\ alive
  /\ phase = PhaseOf("RouteRefresh")
  /\ routes' \in RoundRoutes
  /\ phase' = phase + 1
  /\ UNCHANGED <<neighbors, counters, debt_inbox, balances, exit_requests, round>>
  /\ UNCHANGED <<tm_vars, client_vars>>

\* Watch of the relay traffic watcher; skipped while the debt keeper lags
WatchRelayPhase ==
  /\ alive
  /\ phase = PhaseOf("WatchRelay")
  /\ \E neighs \in RoundNeighbors, mesh_ip \in MeshIpSettings, fail \in ReadFailures :
       LET o == IF Len(debt_inbox) < MaxInbox
                THEN watch(routes, neighs, counters, mesh_ip, fail)
                ELSE [ok |-> FALSE, sent |-> <<>>, usage |-> <<>>, kc |-> counters]
       IN /\ neighbors' = neighs
          /\ debt_inbox' = debt_inbox \o o.sent
          /\ counters' = o.kc
  /\ phase' = phase + 1
  /\ UNCHANGED <<routes, balances, exit_requests, round>>
  /\ UNCHANGED <<tm_vars, client_vars>>

\* QueryExitDebts of the client traffic watcher: the handler spawns the
\* request and returns, or panics on the exit's address and the phase never
\* completes
QueryExitDebts ==
  /\ alive
  /\ phase = PhaseOf("WatchClient")
  /\ \E exit_addr \in ExitAddrs, exit_port \in ExitPorts :
       LET r == query_exit_debts(exit_addr, exit_port, ExitId, round)
       IN IF r.panic
          THEN Dead(kifaces, limits) /\ UNCHANGED <<contacts, exit_requests, phase>>
          ELSE /\ exit_requests' = exit_requests (+) SetToBag({r.spawned[1]})
               /\ phase' = phase + 1
               /\ UNCHANGED tm_vars
  /\ UNCHANGED <<routes, neighbors, counters, debt_inbox, balances, round>>
  /\ UNCHANGED client_vars

\* one spawned request ends: connection refused, request failed, request
\* timed out, answer not decoded, or a debt
ExitDebtsAnswered ==
  /\ alive
  /\ \E q \in BagToSet(exit_requests), outcome \in ExitOutcomes :
       /\ Len(debt_inbox) + Len(exit_debts_answer(q.exit_id, outcome)) <= MaxInbox
       /\ debt_inbox' = debt_inbox \o exit_debts_answer(q.exit_id, outcome)
       /\ exit_requests' = exit_requests (-) SetToBag({q})
  /\ UNCHANGED <<routes, neighbors, counters, balances, phase, round>>
  /\ UNCHANGED <<tm_vars, client_vars>>

\* the debt keeper takes the next message of its mailbox
DebtKeeperStep ==
  /\ alive
  /\ debt_inbox # <<>>
  /\ balances' = DebtKeeperHandle(balances, Head(debt_inbox))
  /\ debt_inbox' = Tail(debt_inbox)
  /\ UNCHANGED <<routes, neighbors, counters, exit_requests, phase, round>>
  /\ UNCHANGED <<tm_vars, client_vars>>

\* the debt keeper classifies the ledger once the messages sent to it before
\* are handled
DebtReclassifyPhase ==
  /\ alive
  /\ phase = PhaseOf("DebtReclassify")
  /\ debt_inbox = <<>>
  /\ phase' = phase + 1
  /\ UNCHANGED <<routes, neighbors, counters, debt_inbox, balances, exit_requests, round>>
  /\ UNCHANGED <<tm_vars, client_vars>>

\* the classification's TunnelStateChange reaches the tunnel manager and the
\* round ends
TunnelStateChangePhase ==
  /\ alive
  /\ phase = PhaseOf("TunnelStateChange")
  /\ round < MaxRounds
  /\ \E batch \in Batches, order \in IdOrders, kfail \in KFails :
       CommitTunnelManager(TunnelStateChange(Cur, batch, order, kfail))
  /\ phase' = 1
  /\ round' = round + 1
  /\ UNCHANGED <<routes, neighbors, counters, debt_inbox, balances, exit_requests>>
  /\ UNCHANGED <<contacts, client_vars>>

NextAccounting ==
  \/ GCPhase
  \/ RouteRefreshPhase
  \/ WatchRelayPhase
  \/ QueryExitDebts
  \/ ExitDebtsAnswered
  \/ DebtKeeperStep
  \/ DebtReclassifyPhase
  \/ TunnelStateChangePhase

SpecAccounting == InitAccounting /\ [][NextAccounting]_vars

\* ---- unsigned integers of the widths of the code, as their bytes from the
\* lowest to the highest without zero bytes at the top
RECURSIVE Bytes(_)
Bytes(n) == IF n <= 0 THEN <<>> ELSE <<n % 256>> \o Bytes(n \div 256)

RECURSIVE Trim(_)
Trim(d) ==
  IF d # <<>> /\ d[Len(d)] = 0 THEN Trim(SubSeq(d, 1, Len(d) - 1)) ELSE d

ByteAt(d, i) == IF i <= Len(d) THEN d[i] ELSE 0

RECURSIVE PlusFrom(_, _, _, _)
PlusFrom(a, b, i, carry) ==
  IF i > Len(a) /\ i > Len(b)
  THEN (IF carry = 0 THEN <<>> ELSE <<carry>>)
  ELSE LET t == ByteAt(a, i) + ByteAt(b, i) + carry
       IN <<t % 256>> \o PlusFrom(a, b, i + 1, t \div 256)

Plus(a, b) == Trim(PlusFrom(a, b, 1, 0))

\* a times one byte k
RECURSIVE ScaleFrom(_, _, _, _)
ScaleFrom(a, k, i, carry) ==
  IF i > Len(a)
  THEN (IF carry = 0 THEN <<>> ELSE <<carry>>)
  ELSE LET t == a[i] * k + carry
       IN <<t % 256>> \o ScaleFrom(a, k, i + 1, t \div 256)

\* a times b, byte by byte of b
RECURSIVE TimesBy(_, _)
TimesBy(a, b) ==
  IF a = <<>> \/ b = <<>> THEN <<>>
  ELSE Plus(Trim(ScaleFrom(a, Head(b), 1, 0)), Trim(<<0>> \o TimesBy(a, Tail(b))))

Times(a, b) == IF Len(a) < Len(b) THEN TimesBy(b, a) ELSE TimesBy(a, b)

\* the value is below 2^(8 * n): it fits an unsigned integer of n bytes
FitsUnsigned(d, n) == Len(d) <= n

\* the value is below 2^(8 * n - 1): it fits a signed integer of n bytes
FitsSigned(d, n) == Len(d) < n \/ (Len(d) = n /\ d[n] < 128)

\* the value modulo 2^(8 * n): what a wrapping operation or an `as` cast to an
\* integer of n bytes keeps
Low(d, n) == Trim(SubSeq(d, 1, IF Len(d) < n THEN Len(d) ELSE n))

\* 2^(8 * k) times the byte b
ByteShifted(b, k) == [i \in 1..(k + 1) |-> IF i = k + 1 THEN b ELSE 0]

\* ---- the client traffic watcher
\* the kernel's counters of wg_exit are followed up to MaxBytes, the bytes the
\* watcher has not counted up to MaxLost, the bytes it has counted beyond the
\* bytes moved up to MaxOverBilled
MaxBytes == 2

MaxLost == 1

\* WgUsage { upload, download } of the peer on wg_exit
WgUsage(download, upload) == [download |-> download, upload |-> upload]

\* what KI.read_wg_counters("wg_exit") returns: an error, or the usage of each
\* peer in the order in which the HashMap is iterated
ReadErr == [kind |-> "Err", res |-> <<>>]

ReadOk(res) == [kind |-> "Ok", res |-> res]

\* what get_installed_route returns for the exit's mesh ip: nothing, or a route
ExitRoutes == {<<>>, <<Route(Prefix("ipE", 128, TRUE), TRUE, 100)>>,
               <<Route(Prefix("ipE", 128, TRUE), TRUE, 200)>>}

\* the exit's price per byte, a u64: free, and 2^63
ExitPrices == {Bytes(0), ByteShifted(128, U64Bytes - 1)}

UpdateUsageMsg(up, down, price) == [kind |-> "Client", up |-> up, down |-> down, price |-> price]

\* a variant that goes on with a free route when none is installed
find_exit_route_capped_FreeRoute(found) ==
  IF found = <<>> THEN <<Route(Prefix("ipE", 128, TRUE), FALSE, 0)>>
  ELSE IF found[1].price > MaxFee THEN <<[found[1] EXCEPT !.price = MaxFee]>>
  ELSE found

\* the route to the exit with its price capped at max_fee
find_exit_route_capped(found) ==
  IF found = <<>> THEN <<>>
  ELSE IF found[1].price > MaxFee THEN <<[found[1] EXCEPT !.price = MaxFee]>>
  ELSE found

\* the cursors of a variant that starts over only when both counters went back
client_cursors_ResetWhenBothRegress(history, counter) ==
  IF history.last_read_input > counter.download /\ history.last_read_output > counter.upload
  THEN [last_read_input |-> 0, last_read_output |-> 0]
  ELSE history

\* the cursors of a variant that counts the whole counters in every round
client_cursors_AlwaysReset(history, counter) ==
  [last_read_input |-> 0, last_read_output |-> 0]

\* the cursors the round subtracts: both are reset when either counter is
\* below its cursor
client_cursors(history, counter) ==
  IF history.last_read_input > counter.download \/ history.last_read_output > counter.upload
  THEN [last_read_input |-> 0, last_read_output |-> 0]
  ELSE history

\* the bill of a round at the widths of the code: the download is billed in
\* i128, exit_price * output is a u64 product, the sum is an i128.  overflow:
\* one of them does not fit, positive: the wrapped owes_exit is above zero,
\* price: exit_dest_price as u32, its low four bytes
client_bill(route_price, exit_price, input, output) ==
  LET exit_dest_price == Plus(Bytes(route_price), exit_price)
      value_down == Times(Bytes(input), exit_dest_price)
      value_up == Times(exit_price, Bytes(output))
      owes_exit == Low(Plus(Low(value_down, I128Bytes), Low(value_up, U64Bytes)),
                       I128Bytes)
  IN [overflow |-> \/ ~FitsSigned(value_down, I128Bytes)
                   \/ ~FitsUnsigned(value_up, U64Bytes)
                   \/ ~FitsSigned(Plus(value_down, value_up), I128Bytes),
      positive |-> owes_exit # <<>> /\ FitsSigned(owes_exit, I128Bytes),
      price |-> Low(exit_dest_price, U32Bytes)]

\* client_bill of the routes, prices and byte counts of the rounds, computed
\* once
ClientBills ==
  [k \in {find_exit_route_capped(found)[1].price : found \in ExitRoutes \ {<<>>}}
         \X ExitPrices \X (0..MaxBytes) \X (0..MaxBytes) |->
     client_bill(k[1], k[2], k[3], k[4])] @@ <<>>

bill_of(route_price, exit_price, input, output) ==
  LET k == <<route_price, exit_price, input, output>>
  IN IF k \in DOMAIN ClientBills THEN ClientBills[k]
     ELSE client_bill(route_price, exit_price, input, output)

\* one round of the client traffic watcher: the cursors it leaves, the bytes it
\* counts, what it sends to the usage tracker and what it sends to the debt
\* keeper.  The round of several peers on wg_exit goes on with the last peer
\* of the iteration.  A u64 subtraction of a larger cursor panics or wraps with
\* the build: underflow records it and the bytes are not followed further.
\* Where the bill overflows, a build with overflow checks panics, with the
\* cursors already moved, and a build without them goes on with the wrapped
\* value.
client_watch(history, found, exit_price, read, checks) ==
  LET failed == [ok |-> FALSE, panic |-> FALSE, history |-> history,
                 input |-> 0, output |-> 0,
                 usage |-> <<>>, sent |-> <<>>, underflow |-> FALSE]
      exit_route == find_exit_route_capped(found)
  IN IF exit_route = <<>> THEN failed
     ELSE IF read.kind = "Err" THEN failed
     ELSE IF read.res = <<>> THEN failed
     ELSE
       LET counter == read.res[Len(read.res)]
           h1 == client_cursors(history, counter)
           underflow == counter.download < h1.last_read_input
                        \/ counter.upload < h1.last_read_output
           input == IF underflow THEN 0 ELSE counter.download - h1.last_read_input
           output == IF underflow THEN 0 ELSE counter.upload - h1.last_read_output
           moved == [last_read_input |-> counter.download,
                     last_read_output |-> counter.upload]
           bill == bill_of(exit_route[1].price, exit_price, input, output)
       IN IF bill.overflow /\ checks
          THEN [ok |-> FALSE, panic |-> TRUE, history |-> moved,
                input |-> input, output |-> output,
                usage |-> <<>>, sent |-> <<>>, underflow |-> underflow]
          ELSE [ok |-> TRUE, panic |-> FALSE, history |-> moved,
                input |-> input, output |-> output,
                usage |-> IF bill.positive
                          THEN <<UpdateUsageMsg(output, input, bill.price)>>
                          ELSE <<>>,
                sent |-> <<>>,
                underflow |-> underflow]

\* the watcher's cursors and the reads of the kernel's counters in this state:
\* an error, no peer, the exit alone, or the exit and a second peer that has
\* moved no byte, iterated in either order
History == [last_read_input |-> last_read_input, last_read_output |-> last_read_output]

ExitPeer == WgUsage(wg_download, wg_upload)

IdlePeer == WgUsage(0, 0)

ClientReads ==
  {ReadErr, ReadOk(<<>>), ReadOk(<<ExitPeer>>),
   ReadOk(<<IdlePeer, ExitPeer>>), ReadOk(<<ExitPeer, IdlePeer>>)}

\* the client and the exit exchange bytes over wg_exit
ExitTraffic ==
  /\ \E d, u \in 0..1 :
       /\ d + u > 0
       /\ wg_download + d <= MaxBytes
       /\ wg_upload + u <= MaxBytes
       /\ unbilled_down + d <= MaxLost
       /\ unbilled_up + u <= MaxLost
       /\ wg_download' = wg_download + d
       /\ wg_upload' = wg_upload + u
       /\ since_down' = since_down + d
       /\ since_up' = since_up + u
       /\ unbilled_down' = unbilled_down + d
       /\ unbilled_up' = unbilled_up + u
  /\ UNCHANGED <<last_read_input, last_read_output, usage, overflow_checks>>
  /\ UNCHANGED <<tm_vars, acct_vars>>

\* the exit tunnel is created again: the kernel counts from zero
ExitTunnelRecreated ==
  /\ wg_download + wg_upload > 0
  /\ wg_download' = 0
  /\ wg_upload' = 0
  /\ UNCHANGED <<last_read_input, last_read_output, usage, since_down, since_up,
                 unbilled_down, unbilled_up, overflow_checks>>
  /\ UNCHANGED <<tm_vars, acct_vars>>

\* a Watch message of the client traffic watcher; an Err is logged by the
\* handler's caller and the actor lives on, a panic ends the process.  The
\* bytes of a round that returns Ok are counted as billed.
ClientWatchMsg ==
  /\ alive
  /\ \E found \in ExitRoutes, exit_price \in ExitPrices, read \in ClientReads :
       LET r == client_watch(History, found, exit_price, read, overflow_checks)
           billed_down == IF r.ok THEN r.input ELSE 0
           billed_up == IF r.ok THEN r.output ELSE 0
       IN /\ Len(debt_inbox) + Len(r.sent) <= MaxInbox
          /\ billed_down - unbilled_down <= MaxOverBilled
          /\ billed_up - unbilled_up <= MaxOverBilled
          /\ last_read_input' = r.history.last_read_input
          /\ last_read_output' = r.history.last_read_output
          /\ usage' = r.usage
          /\ debt_inbox' = debt_inbox \o r.sent
          /\ since_down' = IF r.ok THEN 0 ELSE since_down
          /\ since_up' = IF r.ok THEN 0 ELSE since_up
          /\ unbilled_down' = unbilled_down - billed_down
          /\ unbilled_up' = unbilled_up - billed_up
          /\ IF r.panic THEN Dead(kifaces, limits) /\ UNCHANGED contacts ELSE UNCHANGED tm_vars
  /\ UNCHANGED <<wg_download, wg_upload, overflow_checks>>
  /\ UNCHANGED <<routes, neighbors, counters, balances, exit_requests, phase, round>>

\* the client traffic watcher is started, with the process or again by its
\* supervisor: service_started zeroes both cursors while the kernel keeps
\* wg_exit and its counters.  A process that had ended starts again with the
\* tunnel manager as constructed: its pool is full, and the rest of it is as
\* empty as the end of the process left it.
ClientWatcherStarted ==
  /\ last_read_input' = 0
  /\ last_read_output' = 0
  /\ IF alive THEN UNCHANGED tm_vars
     ELSE /\ free_ports' = [p \in Ports |-> 1]
          /\ alive' = TRUE
          /\ UNCHANGED <<tunnels, now, hellos, dns, kifaces, limits, monitored,
                         commanded, babel_futures, port_callbacks, contacts>>
  /\ UNCHANGED <<wg_download, wg_upload, usage, since_down, since_up,
                 unbilled_down, unbilled_up, overflow_checks>>
  /\ UNCHANGED acct_vars

\* a QueryExitDebts message of the client traffic watcher: every message
\* spawns a request, whether or not an earlier one is still in flight
ClientQueryExitDebts ==
  /\ alive
  /\ \E exit_addr \in ExitAddrs, exit_port \in ExitPorts :
       LET r == query_exit_debts(exit_addr, exit_port, ExitId, round)
       IN IF r.panic
          THEN Dead(kifaces, limits) /\ UNCHANGED <<contacts, exit_requests>>
          ELSE /\ BagCardinality(exit_requests) < MaxRequests
               /\ exit_requests' = exit_requests (+) SetToBag({r.spawned[1]})
               /\ UNCHANGED tm_vars
  /\ UNCHANGED <<routes, neighbors, counters, debt_inbox, balances, phase, round>>
  /\ UNCHANGED client_vars

\* a client whose exit may be one of its neighbors
ClientNeighbors == {<<>>, <<[identity |-> ExitId, iface_name |-> "wgA"]>>}

ClientRows == {[target |-> "ForwardOutput", ip |-> "ipX", iface |-> "wgA"]}

InitClient ==
  /\ TunnelManagerInit
  /\ AccountingInit
  /\ routes = <<Route(Prefix("ipX", 128, TRUE), TRUE, 5)>>
  /\ neighbors \in ClientNeighbors
  /\ counters \in {KernelCounters(R) : R \in SUBSET ClientRows}
  /\ overflow_checks \in BOOLEAN

\* the client traffic watcher's rounds over an exit tunnel that moves bytes and
\* is created again, and the starts of the watcher
NextClient ==
  \/ ExitTraffic
  \/ ExitTunnelRecreated
  \/ ClientWatchMsg
  \/ ClientWatcherStarted

SpecClient == InitClient /\ [][NextClient]_vars

\* the exit tunnel beside the ledger moves MaxLedgerBytes bytes
LedgerExitTraffic == ExitTraffic /\ wg_download' + wg_upload' <= MaxLedgerBytes

\* the client's actors that write to the debt keeper, beside the client
\* traffic watcher's rounds
NextClientLedger ==
  \/ LedgerExitTraffic
  \/ ClientWatchMsg
  \/ ClientQueryExitDebts
  \/ ExitDebtsAnswered
  \/ DebtKeeperStep
  \/ WatchMsg

SpecClientLedger == InitClient /\ [][NextClientLedger]_vars

\* ---- vocabulary of the properties
TunnelAt(sl) == tunnels[sl[1]][sl[2]]

\* how many live tunnels listen on port p
UsesOf(p) == Cardinality({sl \in Slots(tunnels) : TunnelAt(sl).listen_port = p})

\* the positions of the tunnels of identity id that match (ifidx, ip)
Matching(tun, id, peer) ==
  {i \in 1..Len(tun[id]) : tun[id][i].listen_ifidx = peer.ifidx /\ tun[id][i].ip = peer.ip}

CallsOf(r, op) == SelectSeq(r.calls, LAMBDA c : c[1] = op)

AllOk == Env({}, TRUE, TRUE, TRUE)

\* ---- C1: the port pool and the listen ports of the live tunnels partition
\* [wg_start_port, 65535): every port is in the pool or the listen_port of
\* exactly one live tunnel, never both and never neither.  Stated for the
\* states in which no hello, no DNS request and no PortCallback still in the
\* mailbox holds a speculative port.
NothingInFlight == hellos = EmptyBag /\ dns = EmptyBag /\ port_callbacks = <<>>

C1_PortsPartitioned ==
  (alive /\ NothingInFlight) => \A p \in Ports : free_ports[p] + UsesOf(p) = 1

\* ---- C2: no two live tunnels share a listen_port
C2_ListenPortsDistinct ==
  \A a, b \in Slots(tunnels) : a # b => TunnelAt(a).listen_port # TunnelAt(b).listen_port

\* ---- C3: no two live tunnels share (neigh_id.global, listen_ifidx)
C3_OneTunnelPerIdentityAndIfidx ==
  \A a, b \in Slots(tunnels) :
    (a # b /\ a[1] = b[1]) => TunnelAt(a).listen_ifidx # TunnelAt(b).listen_ifidx

\* ---- C6: after every message the interfaces whose latest monitor/unmonitor
\* command is monitor are exactly the interfaces of the live tunnels whose
\* registration state is Registered
C6_MonitoredAreLiveRegistered ==
  alive => commanded = {tn.iface_name : tn \in {x \in AllTunnels(tunnels) :
                                                  x.state.registration_state = Registered}}


\* ---- C4: after TriggerGC(T) no tunnel whose last_contact is at least T in the
\* past remains in tunnels, whether or not del_interface succeeded
C4_GCRemovesStaleTunnels ==
  alive => \A T \in Durations, order \in IdOrders, bad \in BadIfaces :
             LET r == TriggerGC(Cur, T, now, order, bad)
             IN \A tn \in AllTunnels(r.tun) : now - tn.last_contact < T

\* a TriggerGC that finds two stale tunnels and fails to delete the first
\* interface it visits
C4_Witness ==
  /\ alive
  /\ \E T \in Durations, order \in IdOrders, bad \in BadIfaces :
       LET r == TriggerGC(Cur, T, now, order, bad)
       IN /\ r.ret.kind = "Err"
          /\ Len(CallsOf(r, "del_interface")) = 1
          /\ Cardinality({sl \in Slots(tunnels) : now - TunnelAt(sl).last_contact >= T}) = 2

\* ---- C5: the payment and registration state of the tunnel to
\* (identity, listen_ifidx) changes only in TunnelStateChange steps: an
\* IdentityCallback that leaves one tunnel to (identity, ifidx) where there was
\* one leaves its state as it was
StatesAt(tun, id, ifidx) ==
  {tun[id][i].state : i \in {j \in 1..Len(tun[id]) : tun[id][j].listen_ifidx = ifidx}}

CountAt(tun, id, ifidx) ==
  Cardinality({j \in 1..Len(tun[id]) : tun[id][j].listen_ifidx = ifidx})

C5_StateChangesOnlyByStateChange ==
  alive => \A lid \in LocalIdentities, peer \in Peers, env \in OpenEnvs :
             LivesAt(lid.global, peer) =>
               \A r \in IdentityCallback(Cur, lid, peer, <<>>, env.used, now, env) :
                 \A id \in Ids, x \in Ifidxs :
                   (~r.panic /\ CountAt(tunnels, id, x) = 1 /\ CountAt(r.tun, id, x) = 1)
                     => StatesAt(r.tun, id, x) = StatesAt(tunnels, id, x)

\* ---- C7: an IdentityCallback with Some(p) when we have a tunnel T to
\* (identity, ifidx, ip) and the peer has one too: T.last_contact = now, p is
\* back in the pool, no kernel call is made, the tunnel set is unchanged and the
\* result is (T, true)
C7_BothHaveTunnel ==
  alive => \A h \in BagToSet(hellos), lid \in LocalIdentities :
             (LivesAt(lid.global, h.peer) /\ lid.have_tunnel = "SomeTrue") =>
               \A i \in Matching(tunnels, lid.global, h.peer) :
                 \A r \in IdentityCallback([Cur EXCEPT !.hel = @ (-) SetToBag({h})], lid, h.peer,
                                           <<h.port>>, {}, now, AllOk) :
                   LET T == [tunnels[lid.global][i] EXCEPT !.last_contact = now]
                   IN /\ r.tun[lid.global][i] = T
                      /\ r.fp = Push(free_ports, h.port)
                      /\ r.calls = <<>>
                      /\ \A sl \in Slots(tunnels) :
                           [TunnelAt(sl) EXCEPT !.last_contact = now]
                             = [r.tun[sl[1]][sl[2]] EXCEPT !.last_contact = now]
                      /\ Slots(r.tun) = Slots(tunnels)
                      /\ r.ret = Ret("Some", <<T>>, TRUE)

\* ---- C8: an IdentityCallback with Some(p) when we have a tunnel T to
\* (identity, ifidx, ip) and the peer has none: del_interface(T.iface_name) is
\* called exactly once, T is removed, T.listen_port is back in the pool, a new
\* tunnel bound to p is created, opened, monitored and inserted, and the result
\* is (new, true).  Stated for the kernel calls succeeding.
WithoutAt(ts, i) == SubSeq(ts, 1, i - 1) \o SubSeq(ts, i + 1, Len(ts))

C8_WeHaveTheyDoNot ==
  alive => \A h \in BagToSet(hellos), lid \in LocalIdentities :
             (LivesAt(lid.global, h.peer) /\ lid.have_tunnel = "SomeFalse") =>
               \A i \in Matching(tunnels, lid.global, h.peer) :
                 \A r \in IdentityCallback([Cur EXCEPT !.hel = @ (-) SetToBag({h})], lid, h.peer,
                                           <<h.port>>, {}, now, AllOk) :
                   LET T == tunnels[lid.global][i] IN
                   ~r.overflow =>
                     /\ CallsOf(r, "del_interface") = << <<"del_interface", T.iface_name>> >>
                     /\ r.ret.kind = "Some" /\ r.ret.existed
                     /\ r.ret.tunnel[1].listen_port = h.port
                     /\ r.tun = [tunnels EXCEPT ![lid.global] =
                                   Append(WithoutAt(@, i), r.ret.tunnel[1])]
                     /\ r.fp = Push(free_ports, T.listen_port)
                     /\ CallsOf(r, "open") = << <<"open", r.ret.tunnel[1].iface_name>> >>
                     /\ CallsOf(r, "monitor") = << <<"monitor", r.ret.tunnel[1].iface_name>> >>

\* ---- C9: an IdentityCallback with our_port = None when no tunnel exists for
\* (identity, ifidx, ip): one port leaves the pool, exactly one new tunnel is
\* inserted with state {Registered, Paid}, one monitor command is issued for
\* its interface, and the result is (new, false).  Stated for the kernel calls
\* and the read of the port table succeeding.
C9_FirstContact ==
  alive => \A lid \in LocalIdentities, peer \in Peers :
             (LivesAt(lid.global, peer) /\ Matching(tunnels, lid.global, peer) = {}) =>
               \A r \in IdentityCallback(Cur, lid, peer, <<>>, {}, now, AllOk) :
                 (~r.panic /\ ~r.overflow /\ r.ret.kind # "None") =>
                   /\ PoolSize(r.fp) = PoolSize(free_ports) - 1
                   /\ r.ret.kind = "Some" /\ ~r.ret.existed
                   /\ r.tun = [tunnels EXCEPT ![lid.global] = Append(@, r.ret.tunnel[1])]
                   /\ r.ret.tunnel[1].state =
                        [payment_state |-> Paid, registration_state |-> Registered]
                   /\ CallsOf(r, "monitor") = << <<"monitor", r.ret.tunnel[1].iface_name>> >>

\* ---- C10: PaymentOverdue on a Paid tunnel makes it Overdue, PaidOnTime on an
\* Overdue tunnel makes it Paid, and each marks that the bandwidth limits need
\* change (the limits are then visited: has_limit is asked)
PaymentMessages == [identity : Ids, action : {"PaymentOverdue", "PaidOnTime"}]

C10_PaymentTransitions ==
  alive => \A msg \in PaymentMessages, order \in IdOrders, kfail \in KFails :
             LET r == tunnel_state_change(Cur, msg, order, kfail)
                 id == msg.identity
             IN \A i \in 1..Len(tunnels[id]) :
                  LET before == tunnels[id][i].state.payment_state
                      after == r.tun[id][i].state.payment_state
                  IN /\ (msg.action = "PaymentOverdue" /\ before = Paid) =>
                          (after = Overdue /\ CallsOf(r, "has_limit") # <<>>)
                     /\ (msg.action = "PaidOnTime" /\ before = Overdue) =>
                          (after = Paid /\ CallsOf(r, "has_limit") # <<>>)

\* a PaidOnTime reaches an identity with an Overdue, rate-limited tunnel: the
\* tunnel becomes Paid and its limit is replaced by codel shaping
C10_Witness ==
  /\ alive
  /\ \E id \in Ids, order \in IdOrders : \E i \in 1..Len(tunnels[id]) :
       LET r == tunnel_state_change(Cur, [identity |-> id, action |-> "PaidOnTime"],
                                    order, [op |-> "none", iface |-> -1])
       IN /\ tunnels[id][i].state.payment_state = Overdue
          /\ r.tun[id][i].state.payment_state = Paid
          /\ CallsOf(r, "set_codel_shaping") # <<>>

\* ---- C11: for every tunnel of the identity named in a TunnelStateChange
\* entry, MembershipExpired on a Registered tunnel makes it NotRegistered and
\* issues exactly one unmonitor for its interface; MembershipConfirmed on a
\* NotRegistered tunnel makes it Registered and issues exactly one monitor for it
NoKFail == [op |-> "none", iface |-> -1]

CallsOn(r, op, iface) == SelectSeq(r.calls, LAMBDA c : c[1] = op /\ c[2] = iface)

MembershipMessages == [identity : Ids, action : {"MembershipExpired", "MembershipConfirmed"}]

C11_RegistrationTransitions ==
  alive => \A msg \in MembershipMessages, order \in IdOrders, kfail \in KFails :
             LET r == tunnel_state_change(Cur, msg, order, kfail)
                 id == msg.identity
             IN \A i \in 1..Len(tunnels[id]) :
                  LET tn == tunnels[id][i]
                      after == r.tun[id][i].state.registration_state
                  IN /\ (msg.action = "MembershipExpired"
                         /\ tn.state.registration_state = Registered) =>
                          /\ after = NotRegistered
                          /\ Len(CallsOn(r, "unmonitor", tn.iface_name)) = 1
                          /\ tn.iface_name \notin r.cmd
                          /\ Len(SelectSeq(r.fut, LAMBDA c : c = BabelCommand("unmonitor", tn.iface_name))) = 1
                     /\ (msg.action = "MembershipConfirmed"
                         /\ tn.state.registration_state = NotRegistered) =>
                          /\ after = Registered
                          /\ Len(CallsOn(r, "monitor", tn.iface_name)) = 1
                          /\ tn.iface_name \in r.cmd
                          /\ Len(SelectSeq(r.fut, LAMBDA c : c = BabelCommand("monitor", tn.iface_name))) = 1

\* a MembershipExpired reaches an identity with two Registered tunnels
C11_Witness ==
  /\ alive
  /\ \E id \in Ids :
       LET r == tunnel_state_change(Cur, [identity |-> id, action |-> "MembershipExpired"],
                                    <<"idA", "idB">>, NoKFail)
       IN /\ Len(tunnels[id]) = 2
          /\ \A i \in 1..2 : tunnels[id][i].state.registration_state = Registered
          /\ Len(CallsOf(r, "unmonitor")) = 2

\* ---- C12: a TunnelStateChange entry whose action meets none of the four
\* table rows on any tunnel of its identity (MembershipConfirmed on Registered,
\* MembershipExpired on NotRegistered, PaidOnTime on Paid, PaymentOverdue on
\* Overdue, or an identity with no tunnel) leaves every tunnel state unchanged
\* and causes no monitor, unmonitor or traffic-shaping call
InTable(tn, action) ==
  \/ action = "MembershipConfirmed" /\ tn.state.registration_state = NotRegistered
  \/ action = "MembershipExpired" /\ tn.state.registration_state = Registered
  \/ action = "PaidOnTime" /\ tn.state.payment_state = Overdue
  \/ action = "PaymentOverdue" /\ tn.state.payment_state = Paid

StateMessages == [identity : Ids, action : TunnelActions]

C12_OtherCombinationsAreNoOps ==
  alive => \A msg \in StateMessages, order \in IdOrders, kfail \in KFails :
             LET r == tunnel_state_change(Cur, msg, order, kfail)
                 ts == tunnels[msg.identity]
             IN (\A i \in 1..Len(ts) : ~InTable(ts[i], msg.action)) =>
                  /\ r.tun = tunnels
                  /\ r.calls = <<>>
                  /\ r.cmd = commanded /\ r.fut = <<>>
                  /\ r.lim = limits

\* PaymentOverdue reaches an identity whose tunnel is Overdue already and
\* carries its limit, while the other identity's tunnel is Paid
C12_Witness ==
  /\ alive
  /\ \E id \in Ids, other \in Ids :
       /\ id # other
       /\ tunnels[id] # <<>>
       /\ \A i \in 1..Len(tunnels[id]) :
            /\ tunnels[id][i].state.payment_state = Overdue
            /\ has_limit(limits, tunnels[id][i].iface_name)
       /\ \E j \in 1..Len(tunnels[other]) : tunnels[other][j].state.payment_state = Paid


\* ---- C13: after a TunnelStateChange batch in which a payment transition
\* occurred, the kernel calls succeeding, with k the number of Overdue tunnels:
\* every Overdue tunnel's interface carries a classless limit of
\* free_tier_throughput / k and no Paid tunnel's interface carries a limit
BatchLen == 2

BatchesOfTwo == SeqsUpTo(StateMessages, BatchLen) \ {<<>>}

RECURSIVE PaymentTransitionIn(_, _, _)
PaymentTransitionIn(s, batch, order) ==
  /\ batch # <<>>
  /\ \/ tunnel_bw_limits_need_change(s.tun, Head(batch).identity, Head(batch).action)
     \/ PaymentTransitionIn(tunnel_state_change(s, Head(batch), order, NoKFail),
                            Tail(batch), order)

C13_LimitsAfterBatch ==
  alive => \A batch \in BatchesOfTwo, order \in IdOrders :
             LET r == TunnelStateChange(Cur, batch, order, NoKFail)
                 k == limited_interfaces(r.tun)
             IN PaymentTransitionIn(Cur, batch, order) =>
                  \A sl \in Slots(r.tun) :
                    LET tn == r.tun[sl[1]][sl[2]]
                    IN /\ tn.state.payment_state = Overdue =>
                            r.lim[tn.iface_name] = FreeTierThroughput \div k
                       /\ tn.state.payment_state = Paid => ~has_limit(r.lim, tn.iface_name)

\* a batch makes a second tunnel Overdue: two tunnels are Overdue after it and
\* share the free tier
C13_Witness ==
  /\ alive
  /\ \E batch \in BatchesOfTwo, order \in IdOrders :
       LET r == TunnelStateChange(Cur, batch, order, NoKFail)
       IN /\ PaymentTransitionIn(Cur, batch, order)
          /\ limited_interfaces(tunnels) = 1
          /\ limited_interfaces(r.tun) = 2
          /\ \E sl \in Slots(r.tun) :
               r.lim[r.tun[sl[1]][sl[2]].iface_name] = FreeTierThroughput \div 2

\* ---- C14: the bandwidth-limit update runs once per TunnelStateChange batch,
\* after all its entries: a batch that makes two Paid tunnels under distinct
\* identities Overdue causes exactly two set_classless_limit calls, one per
\* overdue interface, each with free_tier_throughput / 2
C14_OneUpdatePerBatch ==
  alive => \A order \in IdOrders, first \in Ids, second \in Ids :
             LET batch == <<[identity |-> first, action |-> "PaymentOverdue"],
                            [identity |-> second, action |-> "PaymentOverdue"]>>
                 r == TunnelStateChange(Cur, batch, order, NoKFail)
             IN (/\ first # second
                 /\ Len(tunnels[first]) = 1 /\ Len(tunnels[second]) = 1
                 /\ \A sl \in Slots(tunnels) : TunnelAt(sl).state.payment_state = Paid) =>
                  /\ Len(CallsOf(r, "set_classless_limit")) = 2
                  /\ \A id \in {first, second} :
                       CallsOn(r, "set_classless_limit", tunnels[id][1].iface_name)
                         = << <<"set_classless_limit", tunnels[id][1].iface_name,
                                FreeTierThroughput \div 2>> >>


\* ---- C17: when the retries are used up get_port fails with an error value
\* that aborts only the one inquiry or callback and leaves the TunnelManager
\* running: no draw from a pool that holds a port ends in a panic
C17_ExhaustionIsAnErrorValue ==
  alive => \A used \in UsedTables : \A o \in get_port(free_ports, 0, used) :
             PoolPorts(free_ports) # {} => o.res # "Panic"

\* ---- C18: every tunnel in storage is stored under the identity it names:
\* tunnel.neigh_id.global is the key
C18_StoredUnderOwnIdentity ==
  \A sl \in Slots(tunnels) : TunnelAt(sl).neigh_id.global = sl[1]

\* tunnels of both identities, one of them stale: a TriggerGC rebuilds the map
\* and keeps the other
C18_Witness ==
  /\ alive
  /\ tunnels["idA"] # <<>>
  /\ tunnels["idB"] # <<>>
  /\ \E T \in Durations, order \in IdOrders :
       LET r == TriggerGC(Cur, T, now, order, {})
       IN /\ AllTunnels(r.tun) # {}
          /\ AllTunnels(r.tun) # AllTunnels(tunnels)

\* ---- C15: the amounts of a relay Watch round
\* the installed host routes to dst in the table of the round
InstalledRoutes(rts, dst) ==
  {i \in DOMAIN rts : rts[i].prefix = Prefix(dst, 128, TRUE) /\ rts[i].installed}

PricedDsts(rts) == {dst \in DstIps : InstalledRoutes(rts, dst) # {}}

\* price(dst) = min(route.price, max_fee) + local_fee
ClaimedPrice(rts, dst) ==
  LET i == CHOOSE j \in InstalledRoutes(rts, dst) : \A k \in InstalledRoutes(rts, dst) : k <= j
      price == IF rts[i].price < MaxFee THEN rts[i].price ELSE MaxFee
  IN price + LocalFee

IfacesOf(neighs, id) == {neighs[i].iface_name : i \in {j \in DOMAIN neighs : neighs[j].identity = id}}

BytesIn(table, dst, iface) ==
  IF CounterKey(dst, iface) \in DOMAIN table THEN table[CounterKey(dst, iface)] ELSE 0

\* the bytes the two tables counted for dst on the tunnel interfaces of id
BytesOfNeighbor(kc, first, second, neighs, id, dst) ==
  LET ifaces == IfacesOf(neighs, id)
  IN SumOver([iface \in ifaces |-> BytesIn(kc[first], dst, iface) + BytesIn(kc[second], dst, iface)],
             ifaces)

ClaimedAmount(rts, neighs, kc, id) ==
  LET dsts == PricedDsts(rts)
      out_bytes(dst) == BytesOfNeighbor(kc, "Output", "ForwardOutput", neighs, id, dst)
      in_bytes(dst) == BytesOfNeighbor(kc, "Input", "ForwardInput", neighs, id, dst)
  IN SumOver([dst \in dsts |-> out_bytes(dst) * (ClaimedPrice(rts, dst) - LocalFee)], dsts)
     - SumOver([dst \in dsts |-> in_bytes(dst) * ClaimedPrice(rts, dst)], dsts)

\* C15: after a successful relay Watch round the TrafficUpdate holds, for every
\* neighbor n of the round, an amount for n that equals the sum over the
\* destinations of out_bytes(n, dst) * (price(dst) - local_fee) less the sum of
\* in_bytes(n, dst) * price(dst), where price(dst) = min(route.price, max_fee)
\* + local_fee, in_bytes sums the Input and ForwardInput counters and out_bytes
\* the Output and ForwardOutput counters on n's tunnel interfaces.
C15_WatchAmounts ==
  \A mesh_ip \in MeshIpSettings, fail \in ReadFailures :
    LET o == watch(routes, neighbors, counters, mesh_ip, fail)
    IN o.ok =>
         \A i \in DOMAIN neighbors :
           LET id == neighbors[i].identity
               traffic == o.sent[1].traffic
           IN /\ id \in DOMAIN traffic
              /\ traffic[id] = ClaimedAmount(routes, neighbors, counters, id)

\* ---- C16: what a QueryExitDebts round sends to the debt keeper
\* C16: a QueryExitDebts round sends exactly one TrafficReplace { from: exit_id,
\* amount: d } to the debt keeper when the exit answers a value d >= 0, and
\* sends the debt keeper nothing when d < 0, when the answer cannot be decoded,
\* when the request fails or times out and when the connection fails: for
\* every request in flight and every way it can end.  A round whose handler
\* panics on the exit's address has spawned no request and gets no answer.
C16_OneReplaceOrNothing ==
  /\ \A q \in BagToSet(exit_requests) : \A outcome \in ExitOutcomes :
       LET sent == exit_debts_answer(q.exit_id, outcome)
       IN IF outcome.kind = "Ok" /\ outcome.debt >= 0
          THEN sent = <<[type |-> "TrafficReplace",
                         traffic |-> [from |-> q.exit_id, amount |-> outcome.debt]]>>
          ELSE sent = <<>>
  /\ \A i \in DOMAIN debt_inbox :
       debt_inbox[i].type = "TrafficReplace" =>
         /\ debt_inbox[i].traffic.from = ExitId
         /\ debt_inbox[i].traffic.amount \in {d \in ExitDebts : d >= 0}

\* a request is in flight while the answer to an earlier one, a debt of zero,
\* waits in the debt keeper's mailbox
C16_Witness ==
  /\ alive
  /\ exit_requests # EmptyBag
  /\ \E i \in DOMAIN debt_inbox :
       /\ debt_inbox[i].type = "TrafficReplace"
       /\ debt_inbox[i].traffic = [from |-> ExitId, amount |-> 0]

\* ---- C19: TrafficReplace overwrites, TrafficUpdate adds
\* the ledger after the debt keeper has handled the messages one by one
RECURSIVE HandleAll(_, _)
HandleAll(bal, msgs) ==
  IF msgs = <<>> THEN bal ELSE HandleAll(DebtKeeperHandle(bal, Head(msgs)), Tail(msgs))

\* the debt keeper takes the message at the head of its mailbox
LedgerStep == debt_inbox # <<>> /\ debt_inbox' = Tail(debt_inbox)

C20_PhasesInOrder ==
  phase = PhaseOf("TunnelStateChange") =>
    \A q \in BagToSet(exit_requests) : q.round # round

\* ---- C21: the destruction loop of TriggerGC
\* the live tunnels that TriggerGC(T) classifies as stale
StaleSlots(T) == {sl \in Slots(tunnels) : ~Fresh(TunnelAt(sl), now, T)}

\* C21: when TriggerGC has handled a message, every tunnel it classified as
\* stale has had unmonitor and del_interface issued for its interface and its
\* listen_port pushed back to the pool, whatever the del_interface calls on the
\* other stale tunnels returned (stated for the tunnels whose own
\* del_interface succeeds when it is called)
C21_EveryStaleTunnelDestroyed ==
  alive => \A T \in Durations, order \in IdOrders, bad \in BadIfaces :
             LET r == TriggerGC(Cur, T, now, order, bad)
             IN \A sl \in StaleSlots(T) :
                  LET tn == TunnelAt(sl)
                  IN tn.iface_name \notin bad =>
                       /\ CallsOn(r, "unmonitor", tn.iface_name) # <<>>
                       /\ CallsOn(r, "del_interface", tn.iface_name) # <<>>
                       /\ r.fp[tn.listen_port] > free_ports[tn.listen_port]

\* ---- C22: storage is replaced first, ports come back after a deletion
\* the stale tunnels on port p whose interface TriggerGC has deleted
DeletedOn(r, T, bad, p) ==
  {sl \in StaleSlots(T) :
     /\ TunnelAt(sl).listen_port = p
     /\ TunnelAt(sl).iface_name \notin bad
     /\ CallsOn(r, "del_interface", TunnelAt(sl).iface_name) # <<>>}

\* C22: whatever del_interface returns, the storage TriggerGC leaves is exactly
\* the fresh tunnels, in their order, and the pool has gained one copy of a
\* port for each stale tunnel on it whose del_interface was called and
\* succeeded, and nothing else: no port comes back before its deletion or
\* after a failed one
C22_FreshStoredPortsAfterDeletion ==
  alive => \A T \in Durations, order \in IdOrders, bad \in BadIfaces :
             LET r == TriggerGC(Cur, T, now, order, bad)
             IN /\ \A k \in Ids :
                     r.tun[k] = SelectSeq(tunnels[k], LAMBDA tn : now - tn.last_contact < T)
                /\ \A p \in Ports :
                     r.fp[p] = free_ports[p] + Cardinality(DeletedOn(r, T, bad, p))

\* a TriggerGC over one fresh and one stale tunnel whose del_interface fails:
\* storage keeps the fresh tunnel only and no port comes back
C22_Witness ==
  /\ alive
  /\ \E T \in Durations, order \in IdOrders, bad \in BadIfaces :
       LET r == TriggerGC(Cur, T, now, order, bad)
       IN /\ r.ret.kind = "Err"
          /\ r.fp = free_ports
          /\ Cardinality(Slots(r.tun)) = 1
          /\ Cardinality(StaleSlots(T)) = 1

\* ---- C23: what get_port returns
\* C23: whenever get_port returns Some(p), p was in the pool before the call,
\* is not in the pool after it, and is not in the table of used ports that the
\* call has read
C23_ReturnedPortLeavesPool ==
  alive => \A used \in UsedTables : \A o \in get_port(free_ports, 0, used) :
             o.res = "Some" =>
               /\ free_ports[o.port] > 0
               /\ o.fp[o.port] = 0
               /\ o.port \notin used

\* ---- C24: the tunnel that open_tunnel bumps and the one it returns
\* C24: when open_tunnel finds that both sides have the tunnel, a stored tunnel
\* of the identity has listen_ifidx = peer.ifidx and ip = peer.ip (the
\* existence test is not met by two tunnels that satisfy one condition each),
\* and that tunnel is the one whose last_contact is set and the one returned
C24_BumpedIsReturned ==
  alive => \A lid \in LocalIdentities, peer \in Peers, p \in Ports :
             (/\ LivesAt(lid.global, peer)
              /\ they_have_tunnel(lid)
              /\ we_have_tunnel(tunnels, lid.global, peer)) =>
               LET r == open_tunnel(Cur, lid, peer, p, now, AllOk)
               IN \E i \in Matching(tunnels, lid.global, peer) :
                    /\ r.tun[lid.global][i] = [tunnels[lid.global][i] EXCEPT !.last_contact = now]
                    /\ r.ret = Ret("Some", <<r.tun[lid.global][i]>>, TRUE)

\* ---- C25: have_tunnel = None against have_tunnel = Some(true)
\* the identity lid as a peer sends it when it does not say whether it has a tunnel
WithNone(lid) == [lid EXCEPT !.have_tunnel = "None"]

\* C25 as stated: for every storage, peer and port, open_tunnel leaves the same
\* storage, pool and kernel calls and returns the same value for
\* have_tunnel = None as for have_tunnel = Some(true)
C25_NoneIdenticalToSomeTrue ==
  alive => \A lid \in LocalIdentities, peer \in Peers, p \in Ports, env \in OpenEnvs :
             (LivesAt(lid.global, peer) /\ lid.have_tunnel = "SomeTrue") =>
               LET a == open_tunnel(Cur, lid, peer, p, now, env)
                   b == open_tunnel(Cur, WithNone(lid), peer, p, now, env)
               IN a.tun = b.tun /\ a.fp = b.fp /\ a.calls = b.calls /\ a.ret = b.ret

\* C25, amended: the two inputs take the same branch.  When we have the tunnel
\* the outcomes are identical; when a tunnel is created the outcomes are
\* identical but for the tunnel created, which records the identity it was
\* given (neigh_id.have_tunnel is None in one, Some(true) in the other) both in
\* storage and in the value returned
C25_NoneTakesTheBranchOfSomeTrue ==
  alive => \A lid \in LocalIdentities, peer \in Peers, p \in Ports, env \in OpenEnvs :
             (LivesAt(lid.global, peer) /\ lid.have_tunnel = "SomeTrue") =>
               LET a == open_tunnel(Cur, lid, peer, p, now, env)
                   b == open_tunnel(Cur, WithNone(lid), peer, p, now, env)
                   key == lid.global
               IN IF we_have_tunnel(tunnels, key, peer) \/ a.ret.kind # "Some"
                  THEN a = b
                  ELSE /\ [a EXCEPT !.tun = <<>>, !.ret = <<>>] = [b EXCEPT !.tun = <<>>, !.ret = <<>>]
                       /\ b.ret = Ret("Some",
                                      <<[a.ret.tunnel[1] EXCEPT !.neigh_id = WithNone(lid)]>>,
                                      a.ret.existed)
                       /\ b.tun = [a.tun EXCEPT ![key] =
                                     Append(SubSeq(@, 1, Len(@) - 1), b.ret.tunnel[1])]
                       /\ a.tun[key][Len(a.tun[key])] = a.ret.tunnel[1]

\* we have the tunnel of a peer whose identity comes without have_tunnel: the
\* tunnel is kept, its timestamp set and the port given back, with no kernel call
C25_Witness ==
  /\ alive
  /\ \E lid \in LocalIdentities, peer \in Peers, p \in Ports :
       /\ LivesAt(lid.global, peer)
       /\ Matching(tunnels, lid.global, peer) # {}
       /\ LET b == open_tunnel(Cur, WithNone(lid), peer, p, now, AllOk)
          IN /\ b.ret.kind = "Some" /\ b.ret.existed
             /\ b.calls = <<>>
             /\ b.fp = Push(free_ports, p)
             /\ Slots(b.tun) = Slots(tunnels)

\* ---- C26: a hostname inquiry whose DNS resolution fails
\* C26: when the resolution of a hostname inquiry fails or times out, exactly
\* one PortCallback with the inquiry's speculative port is sent, no Hello is
\* sent and the inquiry is over, so that nothing returns the port a second
\* time; the handler of that PortCallback puts one copy of the port into the
\* pool and leaves every other port as before
C26_DnsFailureReturnsPortOnce ==
  alive => \A d \in BagToSet(dns) :
             LET r == dns_failed(Cur, d)
                 q == PortCallback(r, d)
             IN /\ r.pcb = <<d>>
                /\ r.fp = free_ports
                /\ r.hel = hellos
                /\ r.dns = dns (-) SetToBag({d})
                /\ r.tun = tunnels /\ r.calls = <<>>
                /\ q.fp = [free_ports EXCEPT ![d] = @ + 1]
                /\ q.tun = tunnels /\ q.hel = hellos /\ q.dns = r.dns

\* a hostname inquiry holds a port that is not in the pool, and its
\* resolution fails
C26_Witness ==
  /\ alive
  /\ \E d \in BagToSet(dns) :
       /\ free_ports[d] = 0
       /\ hellos = EmptyBag
       /\ port_callbacks = <<>>
       /\ PortCallback(dns_failed(Cur, d), d).fp[d] = 1

\* ---- C27: registration and payment are independent
ShapingCalls(r) ==
  SelectSeq(r.calls, LAMBDA c : c[1] \in {"has_limit", "set_classless_limit", "set_codel_shaping"})

\* C27: a MembershipConfirmed or MembershipExpired entry changes no tunnel's
\* payment_state and starts no bandwidth-limit update (no shaping call is
\* made, no limit changes); a PaidOnTime or PaymentOverdue entry changes no
\* tunnel's registration_state and issues no monitor and no unmonitor
C27_AxesIndependent ==
  alive => \A msg \in StateMessages, order \in IdOrders, kfail \in KFails :
             LET r == tunnel_state_change(Cur, msg, order, kfail)
             IN /\ Slots(r.tun) = Slots(tunnels)
                /\ msg \in MembershipMessages =>
                     /\ \A sl \in Slots(tunnels) :
                          r.tun[sl[1]][sl[2]].state.payment_state = TunnelAt(sl).state.payment_state
                     /\ ShapingCalls(r) = <<>>
                     /\ r.lim = limits
                /\ msg \in PaymentMessages =>
                     /\ \A sl \in Slots(tunnels) :
                          r.tun[sl[1]][sl[2]].state.registration_state
                            = TunnelAt(sl).state.registration_state
                     /\ CallsOf(r, "monitor") = <<>> /\ CallsOf(r, "unmonitor") = <<>>
                     /\ r.cmd = commanded /\ r.fut = <<>>

\* a MembershipExpired reaches an identity with a Registered tunnel while a
\* tunnel is Overdue, and a PaymentOverdue reaches an identity with a Paid
\* tunnel while a tunnel is NotRegistered
C27_Witness ==
  /\ alive
  /\ \E a, b \in Slots(tunnels) :
       /\ TunnelAt(a).state.registration_state = Registered
       /\ TunnelAt(b).state.payment_state = Overdue
       /\ CallsOf(tunnel_state_change(Cur, [identity |-> a[1], action |-> "MembershipExpired"],
                                      <<"idA", "idB">>, NoKFail), "unmonitor") # <<>>
  /\ \E a, b \in Slots(tunnels) :
       /\ TunnelAt(a).state.payment_state = Paid
       /\ TunnelAt(b).state.registration_state = NotRegistered
       /\ ShapingCalls(tunnel_state_change(Cur, [identity |-> a[1], action |-> "PaymentOverdue"],
                                           <<"idA", "idB">>, NoKFail)) # <<>>

\* ---- C28: a kernel error during traffic shaping
\* every Overdue tunnel of the storage has a rate limit on its interface
OverdueAreLimited(tun, lim) ==
  \A sl \in Slots(tun) :
    tun[sl[1]][sl[2]].state.payment_state = Overdue => lim[tun[sl[1]][sl[2]].iface_name] > 0

\* C28: a kernel error during traffic shaping is not fatal for the batch: the
\* handler returns Ok, the tunnel states are those that the entries of the
\* batch give with no error, and, when every Overdue tunnel had its limit
\* before the batch, a failure of has_limit, set_classless_limit or
\* set_codel_shaping on one interface leaves no tunnel on another interface
\* Overdue without a rate limit
C28_ShapingErrorNotFatal ==
  alive => \A batch \in BatchesOfTwo, order \in IdOrders, kfail \in KFails :
             LET r == TunnelStateChange(Cur, batch, order, kfail)
             IN /\ r.ret.kind = "Ok"
                /\ \A id \in Ids : \A i \in 1..Len(tunnels[id]) :
                     r.tun[id][i].state
                       = TunnelStateChange(Cur, batch, order, NoKFail).tun[id][i].state
                /\ OverdueAreLimited(tunnels, limits) =>
                     \A sl \in Slots(r.tun) :
                       LET tn == r.tun[sl[1]][sl[2]]
                       IN (tn.state.payment_state = Overdue /\ tn.iface_name # kfail.iface)
                            => r.lim[tn.iface_name] > 0

\* ---- C29: the free tier is shared by the Overdue tunnels
LiveIfaces == {tn.iface_name : tn \in AllTunnels(tunnels)}

RECURSIVE LimitSum(_)
LimitSum(S) ==
  IF S = {} THEN 0
  ELSE LET n == CHOOSE x \in S : TRUE IN limits[n] + LimitSum(S \ {n})

OverdueSlots == {sl \in Slots(tunnels) : TunnelAt(sl).state.payment_state = Overdue}

\* C29: while the kernel's calls succeed, in every reachable state the rate
\* limits installed on the interfaces of the live tunnels add up to at most
\* free_tier_throughput, and every live Overdue tunnel has a rate limit
C29_FreeTierShared ==
  alive => /\ LimitSum(LiveIfaces) <= FreeTierThroughput
           /\ OverdueAreLimited(tunnels, limits)

\* one Overdue tunnel is left with the half of the free tier it was given
\* while another tunnel was Overdue: that tunnel has been collected or re-opened
C29_Witness ==
  /\ alive
  /\ Cardinality(Slots(tunnels)) >= 1
  /\ Cardinality(OverdueSlots) = 1
  /\ \A sl \in OverdueSlots : limits[TunnelAt(sl).iface_name] = FreeTierThroughput \div 2

\* ---- C30: the destination price map of the relay watcher
\* C30: with a mesh_ip configured, the destination map of get_babel_info holds
\* exactly the addresses of the installed /128 IPv6 routes of the snapshot and
\* this node's own mesh_ip; the own mesh_ip is priced 0, also when the
\* snapshot has a route to it; every other address is priced
\* min(route.price, max_fee) + local_fee of its installed route (of the last
\* one in the snapshot, should there be several); routes that are not
\* installed, not /128 or not IPv6 add no entry; no price is above
\* max_fee + local_fee
C30_DestinationPrices ==
  \A mesh_ip \in MeshIpSettings :
    mesh_ip # <<>> =>
      LET r == get_babel_info(routes, mesh_ip)
          d == r.destinations
          own == mesh_ip[1]
      IN /\ r.ok
         /\ DOMAIN d = PricedDsts(routes) \cup {own}
         /\ d[own] = 0
         /\ \A dst \in PricedDsts(routes) \ {own} : d[dst] = ClaimedPrice(routes, dst)
         /\ \A i \in DOMAIN routes :
              (routes[i].prefix.ip \in DOMAIN d /\ routes[i].prefix.ip # own) =>
                \E j \in DOMAIN routes :
                  /\ routes[j].prefix = Prefix(routes[i].prefix.ip, 128, TRUE)
                  /\ routes[j].installed
         /\ \A dst \in DOMAIN d : d[dst] <= MaxFee + LocalFee

\* a Watch has been handled on a snapshot that holds an installed host route
\* above max_fee and an installed host route to this node's own mesh_ip
C30_Witness ==
  /\ debt_inbox # <<>>
  /\ \E i, j \in DOMAIN routes :
       /\ routes[i] = Route(Prefix("ipX", 128, TRUE), TRUE, 200)
       /\ routes[j] = Route(Prefix(OwnIp, 128, TRUE), TRUE, 5)
  /\ LET d == get_babel_info(routes, <<OwnIp>>).destinations
     IN d["ipX"] = MaxFee + LocalFee /\ d[OwnIp] = 0

\* ---- C31: counter rows that cannot be accounted
\* a row is unknown when its interface is the tunnel interface of no neighbor
\* of the round or its destination has no price in the snapshot
UnknownRow(rts, neighs, k) ==
  \/ \A i \in DOMAIN neighs : neighs[i].iface_name # k.iface
  \/ (k.ip # OwnIp /\ InstalledRoutes(rts, k.ip) = {})

\* the counters without their unknown rows
KnownCounters(rts, neighs, kc) ==
  [t \in FilterTargets |->
    [k \in {x \in DOMAIN kc[t] : ~UnknownRow(rts, neighs, x)} |-> kc[t][k]]]

\* C31: a counter row whose interface maps to no neighbor or whose destination
\* has no price changes no neighbor's debt and stops nothing: the round
\* succeeds and sends the TrafficUpdate it would send had the kernel not
\* counted these rows at all
C31_UnknownRowsSkipped ==
  LET o == watch(routes, neighbors, counters, <<OwnIp>>, "none")
      known == watch(routes, neighbors, KnownCounters(routes, neighbors, counters),
                     <<OwnIp>>, "none")
  IN /\ o.ok
     /\ Len(o.sent) = 1
     /\ o.sent = known.sent

\* the input counters hold a row on an interface of no neighbor and a row that
\* debits a neighbor
C31_Witness ==
  /\ \E k \in DOMAIN counters["ForwardInput"] \cup DOMAIN counters["Input"] :
       UnknownRow(routes, neighbors, k)
  /\ LET o == watch(routes, neighbors, counters, <<OwnIp>>, "none")
     IN \E id \in DOMAIN o.sent[1].traffic : o.sent[1].traffic[id] < 0

\* ---- C32: the entries of the TrafficUpdate
\* C32: the TrafficUpdate of a successful relay Watch round has an entry for
\* the identity of every neighbor passed in and for no other identity, and
\* the identity behind every neighbor's tunnel interface has an entry, so
\* that the traffic counted on the interface is attributed; also when two
\* neighbors with different identities share a mesh_ip or one identity has
\* tunnels on several interfaces (stated for the neighbor lists in which no
\* interface is the tunnel of two neighbors)
C32_EveryNeighborHasAnEntry ==
  \A fail \in ReadFailures :
    LET o == watch(routes, neighbors, counters, <<OwnIp>>, fail)
    IN (/\ o.ok
        /\ \A i, j \in DOMAIN neighbors :
             i # j => neighbors[i].iface_name # neighbors[j].iface_name) =>
         LET traffic == o.sent[1].traffic
             if_to_id == prepare_helper_maps(neighbors).if_to_id
         IN /\ DOMAIN traffic = {neighbors[i].identity : i \in DOMAIN neighbors}
            /\ \A i \in DOMAIN neighbors : if_to_id[neighbors[i].iface_name] \in DOMAIN traffic

\* ---- C33: a relay Watch round commits or contributes nothing
\* C33: a relay Watch round succeeds exactly when a mesh IP is configured and
\* none of the four counter reads fails, and then sends exactly one
\* TrafficUpdate; a failed round sends nothing, so that no balance changes;
\* and nothing is billed twice: a successful round leaves every counter at
\* zero, and the counters a failed round leaves for its retry are rows of the
\* counters it found, with their bytes
C33_CommitOrNothing ==
  \A mesh_ip \in MeshIpSettings, fail \in ReadFailures :
    LET o == watch(routes, neighbors, counters, mesh_ip, fail)
    IN /\ o.ok <=> (mesh_ip # <<>> /\ fail = "none")
       /\ o.ok => (Len(o.sent) = 1 /\ o.sent[1].type = "TrafficUpdate")
       /\ o.ok => \A t \in FilterTargets : o.kc[t] = EmptyMap
       /\ ~o.ok => (o.sent = <<>> /\ HandleAll(balances, o.sent) = balances)
       /\ \A t \in FilterTargets : \A k \in DOMAIN o.kc[t] :
            k \in DOMAIN counters[t] /\ o.kc[t][k] = counters[t][k]

\* the read of the output counters fails after the input counters, which
\* hold a neighbor's traffic to a priced destination, have been read
C33_Witness ==
  /\ \E k \in DOMAIN counters["ForwardInput"] : ~UnknownRow(routes, neighbors, k)
  /\ LET o == watch(routes, neighbors, counters, <<OwnIp>>, "Output")
     IN ~o.ok /\ o.sent = <<>> /\ o.kc["ForwardInput"] = EmptyMap

\* ---- C34: the cursors of the client traffic watcher
\* the rounds that get as far as a counter: a route to the exit is installed
\* and the read gives at least one peer
ReadsCounters(found, read) == found # <<>> /\ read.kind = "Ok" /\ read.res # <<>>

\* C34: in a client Watch round that reads the counters, both cursors count as
\* zero when either counter is below its cursor; input and output are the
\* counters less the cursors, computed without underflow; and after the round
\* the cursors are the counters read, whether the round returns Ok or panics
\* in the bill; a round that returns Ok has read counters
C34_CursorsFollowCounters ==
  \A found \in ExitRoutes, exit_price \in ExitPrices, read \in ClientReads,
     checks \in BOOLEAN :
    LET r == client_watch(History, found, exit_price, read, checks)
    IN /\ r.ok => ReadsCounters(found, read)
       /\ ReadsCounters(found, read) =>
            LET download_now == read.res[Len(read.res)].download
                upload_now == read.res[Len(read.res)].upload
                regressed == download_now < last_read_input
                             \/ upload_now < last_read_output
                last_download == IF regressed THEN 0 ELSE last_read_input
                last_upload == IF regressed THEN 0 ELSE last_read_output
            IN /\ r.ok \/ r.panic
               /\ ~r.underflow
               /\ r.input = download_now - last_download
               /\ r.output = upload_now - last_upload
               /\ r.input >= 0 /\ r.output >= 0
               /\ r.history = [last_read_input |-> download_now,
                               last_read_output |-> upload_now]

\* after a round that counted bytes the tunnel was created again and has
\* downloaded as much as before while it has uploaded less: one counter is
\* below its cursor, the other is not
C34_Witness ==
  /\ alive
  /\ usage # <<>>
  /\ last_read_input > 0 /\ wg_download >= last_read_input
  /\ wg_upload < last_read_output
  /\ client_watch(History, <<Route(Prefix("ipE", 128, TRUE), TRUE, 100)>>,
                  ByteShifted(128, U64Bytes - 1),
                  ReadOk(<<ExitPeer>>), overflow_checks).input = wg_download

\* ---- C35: the client traffic watcher bills no byte that was not moved
\* C35: while the counters of wg_exit grow or are reset by a recreation of the
\* tunnel, the bytes a round counts are at most the bytes the tunnel has moved
\* since the latest successful round, and the bytes counted by all rounds are
\* at most the bytes the tunnel has moved in all
C35_NeverOverBills ==
  /\ unbilled_down >= 0
  /\ unbilled_up >= 0
  /\ \A found \in ExitRoutes, exit_price \in ExitPrices, read \in ClientReads :
       LET r == client_watch(History, found, exit_price, read, overflow_checks)
       IN r.ok => (r.input <= since_down /\ r.output <= since_up)

\* ---- C36: the client traffic watcher and the ledger
\* C36: a client Watch round sends nothing to the debt keeper, and on a
\* client the exit's balance changes only when the debt keeper handles a
\* TrafficReplace
C36_ExitBalanceOnlyByReplace ==
  [][/\ \A found \in ExitRoutes, exit_price \in ExitPrices, read \in ClientReads :
          client_watch(History, found, exit_price, read, overflow_checks).sent = <<>>
     /\ balances'[ExitId] # balances[ExitId] =>
          (debt_inbox # <<>> /\ Head(debt_inbox).type = "TrafficReplace")]_vars

\* ---- C40: a failed round of the client traffic watcher
\* C40: a client Watch round fails when no route to the exit is installed,
\* when wg_exit has no peer and when the read of its counters fails; such a
\* round returns an error, leaves both cursors as they were and sends no usage
\* record, so that the next successful round counts what it would have counted
\* without the failed one.  Every other round reads counters and returns Ok
\* or, in a build with overflow checks, panics in the bill.
C40_FailedRoundKeepsCursors ==
  \A found \in ExitRoutes, exit_price \in ExitPrices, read \in ClientReads,
     checks \in BOOLEAN :
    LET r == client_watch(History, found, exit_price, read, checks)
        fails == found = <<>> \/ read = ReadErr \/ read = ReadOk(<<>>)
    IN /\ fails =>
            /\ ~r.ok /\ ~r.panic
            /\ r.history = History
            /\ r.usage = <<>>
            /\ r.sent = <<>>
            /\ r.input = 0 /\ r.output = 0
            /\ \A found2 \in ExitRoutes \ {<<>>}, price2 \in ExitPrices :
                 client_watch(r.history, found2, price2, ReadOk(<<ExitPeer>>), checks)
                   = client_watch(History, found2, price2, ReadOk(<<ExitPeer>>), checks)
       /\ ~fails => (r.ok \/ r.panic)
       /\ r.panic => (checks /\ ~fails /\ r.usage = <<>>)

\* the tunnel has moved bytes since the latest successful round, the latest
\* round sent no usage record, and a round that fails now leaves the cursors
\* behind the counters
C40_Witness ==
  /\ alive
  /\ last_read_input > 0
  /\ since_down > 0 /\ wg_download > last_read_input
  /\ usage = <<>>
  /\ client_watch(History, <<>>, ByteShifted(128, U64Bytes - 1), ReadOk(<<ExitPeer>>),
                  overflow_checks).history = History
  /\ client_watch(History, <<Route(Prefix("ipE", 128, TRUE), TRUE, 100)>>,
                  ByteShifted(128, U64Bytes - 1),
                  ReadOk(<<ExitPeer>>), overflow_checks).input = since_down

\* ---- C37: no port is lost
\* C37: every port that get_port has taken from the pool ends as the
\* listen_port of a live tunnel or back in the pool, whatever the outcome of
\* the interaction it was drawn for: once no hello and no DNS request is in
\* flight and no PortCallback waits in the mailbox, no port is missing from
\* both the pool and the live tunnels
C37_NoPortLost ==
  (alive /\ NothingInFlight) => \A p \in Ports : free_ports[p] + UsesOf(p) >= 1

\* ---- C38: the pool holds no port twice
\* C38: after any sequence of draws and returns, including several callbacks
\* that carry the one speculative port of a hostname inquiry, no port is in
\* the free pool more than once
C38_PoolHoldsNoPortTwice ==
  \A p \in Ports : free_ports[p] <= 1

\* ---- C39: a state change reaches all tunnels of its identity and no other
\* the value an action gives to the axis it addresses
AxisValue(tn, action) ==
  IF action \in {"MembershipConfirmed", "MembershipExpired"}
  THEN tn.state.registration_state
  ELSE tn.state.payment_state

AxisTarget(action) ==
  CASE action = "MembershipConfirmed" -> Registered
    [] action = "MembershipExpired" -> NotRegistered
    [] action = "PaidOnTime" -> Paid
    [] OTHER -> Overdue

\* C39: a TunnelStateChange entry for an identity leaves the tunnels stored
\* under every other identity as they were, keeps the tunnels of its identity
\* in place with nothing but their state changed, and leaves all of them, on
\* every interface, with the value of the action on the axis it addresses
C39_AllTunnelsOfTheIdentity ==
  alive => \A msg \in StateMessages, order \in IdOrders, kfail \in KFails :
             LET r == tunnel_state_change(Cur, msg, order, kfail)
                 X == msg.identity
             IN /\ \A id \in Ids \ {X} : r.tun[id] = tunnels[id]
                /\ Len(r.tun[X]) = Len(tunnels[X])
                /\ \A i \in 1..Len(tunnels[X]) :
                     /\ [r.tun[X][i] EXCEPT !.state = tunnels[X][i].state] = tunnels[X][i]
                     /\ AxisValue(r.tun[X][i], msg.action) = AxisTarget(msg.action)
                /\ \A i, j \in 1..Len(r.tun[X]) :
                     AxisValue(r.tun[X][i], msg.action) = AxisValue(r.tun[X][j], msg.action)

\* an identity has two tunnels on different interfaces, one Overdue and one
\* Paid, and a PaymentOverdue for it leaves both Overdue
C39_Witness ==
  /\ alive
  /\ \E X \in Ids :
       /\ Len(tunnels[X]) = 2
       /\ tunnels[X][1].listen_ifidx # tunnels[X][2].listen_ifidx
       /\ tunnels[X][1].state.payment_state # tunnels[X][2].state.payment_state
       /\ LET r == tunnel_state_change(Cur, [identity |-> X, action |-> "PaymentOverdue"],
                                       <<"idA", "idB">>, NoKFail)
          IN /\ r.tun[X][1].state.payment_state = Overdue
             /\ r.tun[X][2].state.payment_state = Overdue

====
